---- MODULE Spec2Model ----
(***************************************************************************)
(* Game Session Engine of bot_or_not_game.                                 *)
(*                                                                         *)
(* The entity store (DatabaseService) holds four insertion-ordered Maps.   *)
(* Ids are uuids in the source; here the id of a record is its position in *)
(* the Map's insertion order, so a Map is a sequence and an unknown id is  *)
(* a position past its end.                                                *)
(*                                                                         *)
(* Every engine method is an async function: it runs synchronously up to   *)
(* an await, and other calls may run before it resumes.  The store's own   *)
(* methods contain no await, so a store read or write happens at the       *)
(* moment of the call, before the caller is suspended.  A call is modelled *)
(* by a frame whose pc names the await it is suspended at; Resume runs it  *)
(* to its next await.  Spec runs every call to completion (operations one  *)
(* at a time); SpecConc lets two clients' calls interleave at the awaits.  *)
(*                                                                         *)
(* The continuation of an await on a settled promise is a microtask, and   *)
(* the runtime runs microtasks first in, first out: microtasks is the      *)
(* queue of the calls whose continuation is waiting to run.  The return of *)
(* a nested async function to the function awaiting it costs one microtask *)
(* more; these steps touch no record and have a pc ending in "_return".    *)
(*                                                                         *)
(* adminRateLimitStore is the Map of the administration routes' rate       *)
(* limiter (global.adminRateLimitStore), from a client key to its count    *)
(* and resetTime; the engine never touches it.                             *)
(***************************************************************************)
EXTENDS Integers, Sequences, FiniteSets, TLC

VARIABLES images, imagePairs, gameSessions, gameRounds, now, calls, microtasks,
          adminRateLimitStore

vars == <<images, imagePairs, gameSessions, gameRounds, now, calls, microtasks,
          adminRateLimitStore>>

\* new Map()
EmptyMap == [k \in {} |-> 0]

(***************************************************************************)
(* Bounds of the model.                                                    *)
(***************************************************************************)
MaxSessions == 2
MaxRounds == 3
MaxConcRounds == 2
TicksPerDay == 1

Clients == {"c1", "c2"}
Players == {"p1"}
GameModes == {"daily", "streak"}
PlayerChoices == {"ai", "real"}
ResponseTimes == {1500}

(***************************************************************************)
(* null / undefined                                                        *)
(***************************************************************************)
Null == [null |-> TRUE]
NoPlayer == "undefined"
NoDate == -1
NoTime == -1
NoPair == 0

(***************************************************************************)
(* { ...r, ...u } : object spread, the fields of u override those of r.    *)
(* An absent `updates` argument is the empty function.                     *)
(***************************************************************************)
Spread(r, u) == [k \in DOMAIN r \cup DOMAIN u |-> IF k \in DOMAIN u THEN u[k] ELSE r[k]]

Undefined == << >>

RECURSIVE SumSeq(_)
SumSeq(s) == IF s = << >> THEN 0 ELSE Head(s) + SumSeq(Tail(s))

\* Math.round(n / d) for integers n >= 0, d > 0
RoundDiv(n, d) == (2 * n + d) \div (2 * d)

Max(a, b) == IF a >= b THEN a ELSE b

(***************************************************************************)
(* Numbers.  A number of the program is an IEEE 754 double: * / + - give   *)
(* the double nearest to the exact result, ties to even.  The doubles met  *)
(* in the score computations are finite, non-negative and normal; one is   *)
(* held as [m, e], its value m * 2^e, with m = 0 or 2^52 <= m < 2^53.  m   *)
(* does not fit a machine integer: it is a sequence of digits of base      *)
(* 2^14, least significant first, with no leading zero digit.              *)
(***************************************************************************)
DigitBits == 14
Base == 16384
MantissaBits == 53

RECURSIVE Pow2(_)
Pow2(n) == IF n = 0 THEN 1 ELSE 2 * Pow2(n - 1)

RECURSIVE BNorm(_)
BNorm(a) ==
    IF a = << >> THEN a
    ELSE IF a[Len(a)] = 0 THEN BNorm(SubSeq(a, 1, Len(a) - 1))
    ELSE a

RECURSIVE BFromInt(_)
BFromInt(n) == IF n = 0 THEN << >> ELSE <<n % Base>> \o BFromInt(n \div Base)

RECURSIVE BToInt(_)
BToInt(a) == IF a = << >> THEN 0 ELSE Head(a) + Base * BToInt(Tail(a))

RECURSIVE BAddC(_, _, _)
BAddC(a, b, carry) ==
    IF a = << >> /\ b = << >>
    THEN IF carry = 0 THEN << >> ELSE <<carry>>
    ELSE IF a = << >> THEN BAddC(<<0>>, b, carry)
    ELSE IF b = << >> THEN BAddC(a, <<0>>, carry)
    ELSE <<(Head(a) + Head(b) + carry) % Base>>
             \o BAddC(Tail(a), Tail(b), (Head(a) + Head(b) + carry) \div Base)

\* a - b for a >= b
RECURSIVE BSubB(_, _, _)
BSubB(a, b, borrow) ==
    IF a = << >> THEN << >>
    ELSE IF b = << >> THEN BSubB(a, <<0>>, borrow)
    ELSE IF Head(a) - Head(b) - borrow < 0
         THEN <<Head(a) - Head(b) - borrow + Base>> \o BSubB(Tail(a), Tail(b), 1)
         ELSE <<Head(a) - Head(b) - borrow>> \o BSubB(Tail(a), Tail(b), 0)

BSub(a, b) == BNorm(BSubB(a, b, 0))

\* a * k + carry for a digit k
RECURSIVE BMulSmall(_, _, _)
BMulSmall(a, k, carry) ==
    IF a = << >>
    THEN IF carry = 0 THEN << >> ELSE <<carry>>
    ELSE <<(Head(a) * k + carry) % Base>>
             \o BMulSmall(Tail(a), k, (Head(a) * k + carry) \div Base)

RECURSIVE BMulRec(_, _)
BMulRec(a, b) ==
    IF b = << >> THEN << >>
    ELSE BAddC(BMulSmall(a, Head(b), 0), <<0>> \o BMulRec(a, Tail(b)), 0)

\* quotient and remainder of a by a digit k > 0: one step of the short
\* division, given the quotient and remainder of the digits above
BDivDigit(above, digit, k) ==
    [q |-> <<(above.r * Base + digit) \div k>> \o above.q,
     r |-> (above.r * Base + digit) % k]

RECURSIVE BDivSmall(_, _)
BDivSmall(a, k) ==
    IF a = << >> THEN [q |-> << >>, r |-> 0]
    ELSE BDivDigit(BDivSmall(Tail(a), k), Head(a), k)

\* -1, 0, 1 as a < b, a = b, a > b
RECURSIVE BCmp(_, _)
BCmp(a, b) ==
    IF Len(a) # Len(b) THEN (IF Len(a) < Len(b) THEN -1 ELSE 1)
    ELSE IF a = << >> THEN 0
    ELSE IF a[Len(a)] # b[Len(b)] THEN (IF a[Len(a)] < b[Len(b)] THEN -1 ELSE 1)
    ELSE BCmp(SubSeq(a, 1, Len(a) - 1), SubSeq(b, 1, Len(b) - 1))

\* a * 2^n
BShl(a, n) ==
    IF a = << >> THEN a
    ELSE [i \in 1..(n \div DigitBits) |-> 0] \o BMulSmall(a, Pow2(n % DigitBits), 0)

\* floor(a / 2^n)
BShr(a, n) ==
    IF n \div DigitBits >= Len(a) THEN << >>
    ELSE BNorm(BDivSmall(SubSeq(a, (n \div DigitBits) + 1, Len(a)), Pow2(n % DigitBits)).q)

RECURSIVE BitsOf(_)
BitsOf(d) == IF d = 0 THEN 0 ELSE 1 + BitsOf(d \div 2)

BitLen(a) == IF a = << >> THEN 0 ELSE DigitBits * (Len(a) - 1) + BitsOf(a[Len(a)])

\* the double nearest to q * 2^e (plus something below 2^e when sticky),
\* given the bits kept, the bits dropped and the half of their weight
FRoundUp(kept, dropped, half, sticky) ==
    \/ BCmp(dropped, half) = 1
    \/ BCmp(dropped, half) = 0 /\ (sticky \/ Head(kept) % 2 = 1)

FPack(m, e) ==
    IF BitLen(m) > MantissaBits THEN [m |-> BShr(m, 1), e |-> e + 1] ELSE [m |-> m, e |-> e]

FRoundShift(m, e, shift, kept, sticky) ==
    IF FRoundUp(kept, BSub(m, BShl(kept, shift)), BShl(<<1>>, shift - 1), sticky)
    THEN FPack(BAddC(kept, << >>, 1), e + shift)
    ELSE [m |-> kept, e |-> e + shift]

FRound(m, e, sticky) ==
    IF m = << >> THEN [m |-> << >>, e |-> 0]
    ELSE IF BitLen(m) <= MantissaBits
         THEN [m |-> BShl(m, MantissaBits - BitLen(m)), e |-> e - (MantissaBits - BitLen(m))]
    ELSE FRoundShift(m, e, BitLen(m) - MantissaBits, BShr(m, BitLen(m) - MantissaBits), sticky)

\* an integer below 2^31 is a double
FInt(n) == FRound(BFromInt(n), 0, FALSE)

FMul(x, y) == FRound(BNorm(BMulRec(x.m, y.m)), x.e + y.e, FALSE)

FMinE(x, y) == IF x.e < y.e THEN x.e ELSE y.e

FAdd(x, y) ==
    IF x.m = << >> THEN y
    ELSE IF y.m = << >> THEN x
    ELSE FRound(BAddC(BShl(x.m, x.e - FMinE(x, y)), BShl(y.m, y.e - FMinE(x, y)), 0),
                FMinE(x, y), FALSE)

\* -1, 0, 1 as x < y, x = y, x > y
FCmp(x, y) ==
    IF x.m = << >> \/ y.m = << >>
    THEN (IF x.m = y.m THEN 0 ELSE IF x.m = << >> THEN -1 ELSE 1)
    ELSE BCmp(BShl(x.m, x.e - FMinE(x, y)), BShl(y.m, y.e - FMinE(x, y)))

\* x - y for x >= y
FSub(x, y) ==
    IF y.m = << >> THEN x
    ELSE FRound(BSub(BShl(x.m, x.e - FMinE(x, y)), BShl(y.m, y.e - FMinE(x, y))),
                FMinE(x, y), FALSE)

\* x / k for an integer 0 < k < 2^10: the quotient to at least 4 bits more
\* than a double keeps, and whether anything is left
FDiv(x, k) ==
    IF x.m = << >> THEN x
    ELSE FRound(BNorm(BDivSmall(BShl(x.m, DigitBits), k).q), x.e - DigitBits,
                BDivSmall(BShl(x.m, DigitBits), k).r # 0)

FMin(x, y) == IF FCmp(x, y) <= 0 THEN x ELSE y

\* floor(x * 2^k) as an integer, for a result below 2^31
FFloorScaled(x, k) ==
    IF x.e + k >= 0 THEN BToInt(BShl(x.m, x.e + k)) ELSE BToInt(BShr(x.m, -(x.e + k)))

\* Math.floor
MathFloor(x) == FFloorScaled(x, 0)

\* Math.round: the nearest integer, a half goes up
MathRound(x) == (FFloorScaled(x, 1) + 1) \div 2

(***************************************************************************)
(* DatabaseService                                                         *)
(***************************************************************************)
DB == [images |-> images, imagePairs |-> imagePairs,
       gameSessions |-> gameSessions, gameRounds |-> gameRounds]

getImage(db, id) == IF id \in DOMAIN db.images THEN db.images[id] ELSE Null

updateImage(db, id, updates) ==
    IF id \in DOMAIN db.images
    THEN [db EXCEPT !.images[id] = Spread(@, updates)]
    ELSE db

getImagePair(db, id) == IF id \in DOMAIN db.imagePairs THEN db.imagePairs[id] ELSE Null

createImagePairRecord(db, pair) == [db EXCEPT !.imagePairs = Append(@, pair)]

updateImagePair(db, id, updates) ==
    IF id \in DOMAIN db.imagePairs
    THEN [db EXCEPT !.imagePairs[id] = Spread(@, updates)]
    ELSE db

createGameSession(db, session) == [db EXCEPT !.gameSessions = Append(@, session)]

getGameSession(db, id) == IF id \in DOMAIN db.gameSessions THEN db.gameSessions[id] ELSE Null

updateGameSession(db, id, updates) ==
    IF id \in DOMAIN db.gameSessions
    THEN [db EXCEPT !.gameSessions[id] = Spread(@, updates)]
    ELSE db

\* (variant: rounds are keyed by their session, a second round replaces the
\* first)
createGameRound_keyedBySession(db, round) ==
    IF \E i \in DOMAIN db.gameRounds : db.gameRounds[i].session_id = round.session_id
    THEN [db EXCEPT !.gameRounds =
              [i \in DOMAIN @ |-> IF @[i].session_id = round.session_id THEN round ELSE @[i]]]
    ELSE [db EXCEPT !.gameRounds = Append(@, round)]

createGameRound(db, round) == [db EXCEPT !.gameRounds = Append(@, round)]

\* (variant: the filter on session_id is forgotten)
getGameRoundsBySession_unfiltered(db, sessionId) == db.gameRounds

\* the rounds of a session (the sort by round_number does not change what
\* the callers compute from them: a length, a count and a sum)
getGameRoundsBySession(db, sessionId) ==
    SelectSeq(db.gameRounds, LAMBDA r : r.session_id = sessionId)

(***************************************************************************)
(* Object.values(x) of a Map instance: a Map keeps its entries in internal *)
(* slots, it has no own enumerable properties, so the result is empty      *)
(* whatever the Map holds.                                                 *)
(***************************************************************************)
ObjectValues(map) == << >>

(***************************************************************************)
(* Call frames.  pc = "enter": not yet started; pc = "done": returned      *)
(* (error = "") or thrown (error # "").  The locals of a call die with it. *)
(***************************************************************************)
Frame(op, data) ==
    [op |-> op, pc |-> "enter", data |-> data, local |-> Undefined,
     error |-> "", result |-> Null]

\* Math.random() is not an argument of the call: it is a local of the frame
WithRandom(f, r) == [f EXCEPT !.local = [random |-> r]]

IdleFrame == [Frame("idle", Undefined) EXCEPT !.pc = "done"]

Await(db, f, label, bindings) ==
    [db |-> db, f |-> [f EXCEPT !.pc = label, !.local = Spread(@, bindings)]]

Throw(db, f, e) ==
    [db |-> db, f |-> [f EXCEPT !.pc = "done", !.error = e, !.local = Undefined]]

Return(db, f, v) ==
    [db |-> db, f |-> [f EXCEPT !.pc = "done", !.result = v, !.local = Undefined]]

(***************************************************************************)
(* GameService.getTodayString : the calendar day of the clock              *)
(***************************************************************************)
getTodayString(t) == t \div TicksPerDay

(***************************************************************************)
(* GameService.getTodaysDailySession : find() over                         *)
(* Object.values(this.db["gameSessions"]), first match or null             *)
(***************************************************************************)
getTodaysDailySession(db, playerId, t) ==
    LET allSessions == ObjectValues(db.gameSessions)
        matches == SelectSeq(allSessions,
                       LAMBDA s : /\ s.player_id = playerId
                                  /\ s.game_mode = "daily"
                                  /\ s.daily_challenge_date = getTodayString(t))
    IN  IF matches = << >> THEN Null ELSE Head(matches)

(***************************************************************************)
(* The literals 0.1 (also STREAK_BONUS_MULTIPLIER) and 0.2: the doubles    *)
(* nearest to 1/10 and 2/10.                                               *)
(***************************************************************************)
Tenth == FDiv(FInt(1), 10)
Fifth == FDiv(FInt(2), 10)

(***************************************************************************)
(* GameService.calculatePoints:                                            *)
(*   Math.round((100 + 100 * (difficulty * 0.2)                            *)
(*               + Math.max(0, (30 - responseTime / 1000) * 2)) * mult)    *)
(* with mult = 1 + currentStreak * 0.1 in streak mode and 1 otherwise.     *)
(***************************************************************************)
pointsTimeBonus(responseTimeSeconds) ==
    IF FCmp(responseTimeSeconds, FInt(30)) >= 0 THEN FInt(0)
    ELSE FMul(FSub(FInt(30), responseTimeSeconds), FInt(2))

calculatePoints(isCorrect, responseTime, difficulty, currentStreak, gameMode) ==
    IF ~isCorrect THEN 0
    ELSE MathRound(FMul(FAdd(FAdd(FInt(100), FMul(FInt(100), FMul(FInt(difficulty), Fifth))),
                             pointsTimeBonus(FDiv(FInt(responseTime), 1000))),
                        IF gameMode = "streak"
                        THEN FAdd(FInt(1), FMul(FInt(currentStreak), Tenth)) ELSE FInt(1)))

(***************************************************************************)
(* ScoreCalculator.calculateScore:                                         *)
(*   Math.floor((100 + difficulty * 20                                     *)
(*               + Math.max(0, 50 - Math.min(responseTime / 1000, 30) * 2))*)
(*              * (1 + currentStreak * 0.1))                               *)
(***************************************************************************)
BASE_SCORE == 100
DIFFICULTY_MULTIPLIER == 20
MAX_TIME_BONUS == 50

scoreTimeBonus(twice) ==
    IF FCmp(twice, FInt(MAX_TIME_BONUS)) >= 0 THEN FInt(0)
    ELSE FSub(FInt(MAX_TIME_BONUS), twice)

calculateScore(isCorrect, responseTime, difficulty, currentStreak) ==
    IF ~isCorrect THEN 0
    ELSE MathFloor(FMul(FAdd(FInt(BASE_SCORE + difficulty * DIFFICULTY_MULTIPLIER),
                             scoreTimeBonus(FMul(FMin(FDiv(FInt(responseTime), 1000), FInt(30)),
                                                 FInt(2)))),
                        FAdd(FInt(1), FMul(FInt(currentStreak), Tenth))))

(***************************************************************************)
(* ImageService.incrementUsageCount, entered from updatePairStats.         *)
(* which = "ai" for the first call (line 224), "real" for the second.      *)
(***************************************************************************)
incrementUsageCount_enter(db, f, id, which) ==
    Await(db, f, "inc_" \o which \o "_getImage", [image |-> getImage(db, id), imageId |-> id])

incrementUsageCount_write(db, f, which) ==
    Await(updateImage(db, f.local.imageId, [usage_count |-> f.local.image.usage_count + 1]),
          f, "inc_" \o which \o "_updateImage", Undefined)

(***************************************************************************)
(* The value submitPlayerChoice returns                                    *)
(***************************************************************************)
submitResult(f) ==
    [round |-> f.local.round, isCorrect |-> f.local.isCorrect,
     pointsEarned |-> f.local.pointsEarned, gameResult |-> f.local.gameResult]

(***************************************************************************)
(* ImagePairService.updatePairStats, entered from submitPlayerChoice.      *)
(* success_rate is held in hundredths of a percent (it is rounded to two   *)
(* decimals), average_response_time is rounded to an integer.              *)
(***************************************************************************)
updatePairStats_enter(db, f) ==
    Await(db, f, "stats_getImagePair", [statPair |-> getImagePair(db, f.data.pair_id)])

\* (variant: the rate is computed from the count of correct guesses as it
\* was before this round)
updatePairStats_write_staleRate(db, f) ==
    LET pair == f.local.statPair
        newTotalAttempts == pair.total_attempts + 1
        newCorrectGuesses == pair.correct_guesses + (IF f.local.isCorrect THEN 1 ELSE 0)
        totalResponseTime == pair.average_response_time * pair.total_attempts
                                 + f.data.response_time
    IN  IF pair = Null THEN Await(db, f, "stats_return", Undefined)
        ELSE Await(updateImagePair(db, f.data.pair_id,
                       [total_attempts |-> newTotalAttempts,
                        correct_guesses |-> newCorrectGuesses,
                        success_rate |-> RoundDiv(pair.correct_guesses * 10000, newTotalAttempts),
                        average_response_time |-> RoundDiv(totalResponseTime, newTotalAttempts)]),
                   f, "stats_updateImagePair", Undefined)

updatePairStats_write(db, f) ==
    LET pair == f.local.statPair
        newTotalAttempts == pair.total_attempts + 1
        newCorrectGuesses == pair.correct_guesses + (IF f.local.isCorrect THEN 1 ELSE 0)
        totalResponseTime == pair.average_response_time * pair.total_attempts
                                 + f.data.response_time
    IN  IF pair = Null THEN Await(db, f, "stats_return", Undefined)
        ELSE Await(updateImagePair(db, f.data.pair_id,
                       [total_attempts |-> newTotalAttempts,
                        correct_guesses |-> newCorrectGuesses,
                        success_rate |-> RoundDiv(newCorrectGuesses * 10000, newTotalAttempts),
                        average_response_time |-> RoundDiv(totalResponseTime, newTotalAttempts)]),
                   f, "stats_updateImagePair", Undefined)

(***************************************************************************)
(* GameService.endGameSession, entered by a manual end (updates absent) or *)
(* from submitPlayerChoice (updates given).                                *)
(***************************************************************************)
endGameSession_enter(db, f, updates) ==
    Await(db, f, "end_getGameSession",
          [endSession |-> getGameSession(db, f.data.session_id), updates |-> updates])

\* (variant: ending a game clears the streak)
endGameSession_update_resetsStreak(db, f, t) ==
    IF f.local.endSession = Null THEN Throw(db, f, "SessionNotFound")
    ELSE Await(updateGameSession(db, f.data.session_id,
                   Spread(f.local.updates,
                          [is_completed |-> TRUE, end_time |-> t, current_streak |-> 0])),
               f, "end_updateGameSession",
               [updatedSession |->
                   getGameSession(updateGameSession(db, f.data.session_id,
                       Spread(f.local.updates,
                              [is_completed |-> TRUE, end_time |-> t, current_streak |-> 0])),
                       f.data.session_id)])

endGameSession_update(db, f, t) ==
    LET finalUpdates == Spread(f.local.updates, [is_completed |-> TRUE, end_time |-> t])
        db2 == updateGameSession(db, f.data.session_id, finalUpdates)
    IN  IF f.local.endSession = Null THEN Throw(db, f, "SessionNotFound")
        ELSE Await(db2, f, "end_updateGameSession",
                   [updatedSession |-> getGameSession(db2, f.data.session_id)])

\* (variant: the result counts the rounds of every session)
endGameSession_rounds_ofAllSessions(db, f) ==
    Await(db, f, "end_getGameRoundsBySession", [rounds |-> db.gameRounds])

endGameSession_rounds(db, f) ==
    Await(db, f, "end_getGameRoundsBySession",
          [rounds |-> getGameRoundsBySession(db, f.data.session_id)])

\* (variant: the result is made of the session as it was before the update)
gameResultOf_beforeLastRound(f) ==
    LET rounds == f.local.rounds
        correctAnswers == Len(SelectSeq(rounds, LAMBDA r : r.is_correct))
        totalRounds == Len(rounds)
        sumResponse == SumSeq([i \in 1..Len(rounds) |-> rounds[i].response_time])
    IN  [session_id |-> f.data.session_id,
         total_score |-> f.local.endSession.total_score,
         rounds_completed |-> f.local.endSession.rounds_completed,
         current_streak |-> f.local.endSession.current_streak,
         is_completed |-> TRUE,
         final_stats |->
             [correct_answers |-> correctAnswers,
              total_rounds |-> totalRounds,
              accuracy_percentage |->
                  IF totalRounds > 0 THEN RoundDiv(correctAnswers * 10000, totalRounds) ELSE 0,
              average_response_time |->
                  IF totalRounds > 0 THEN RoundDiv(sumResponse, totalRounds) ELSE 0]]

gameResultOf(f) ==
    LET rounds == f.local.rounds
        correctAnswers == Len(SelectSeq(rounds, LAMBDA r : r.is_correct))
        totalRounds == Len(rounds)
        sumResponse == SumSeq([i \in 1..Len(rounds) |-> rounds[i].response_time])
    IN  [session_id |-> f.data.session_id,
         total_score |-> f.local.updatedSession.total_score,
         rounds_completed |-> f.local.updatedSession.rounds_completed,
         current_streak |-> f.local.updatedSession.current_streak,
         is_completed |-> TRUE,
         final_stats |->
             [correct_answers |-> correctAnswers,
              total_rounds |-> totalRounds,
              accuracy_percentage |->
                  IF totalRounds > 0 THEN RoundDiv(correctAnswers * 10000, totalRounds) ELSE 0,
              average_response_time |->
                  IF totalRounds > 0 THEN RoundDiv(sumResponse, totalRounds) ELSE 0]]

\* (variant: the round that ends the game returns without recording the
\* outcome on the pair)
endGameSession_return_noStats(db, f) ==
    IF f.op = "end"
    THEN Return(db, f, gameResultOf(f))
    ELSE LET g == [f EXCEPT !.local = Spread(@, [gameResult |-> gameResultOf(f)])]
         IN  Return(db, g, submitResult(g))

endGameSession_return(db, f) ==
    IF f.op = "end"
    THEN Return(db, f, gameResultOf(f))
    ELSE Await(db, f, "end_return", [gameResult |-> gameResultOf(f)])

(***************************************************************************)
(* GameService.submitPlayerChoice                                          *)
(***************************************************************************)
submitPlayerChoice_enter(db, f) ==
    Await(db, f, "getGameSession", [session |-> getGameSession(db, f.data.session_id)])

\* (variant: the is_completed check is forgotten)
submitPlayerChoice_pair_unchecked(db, f) ==
    IF f.local.session = Null THEN Throw(db, f, "SessionNotFound")
    ELSE Await(db, f, "getImagePairById", [pair |-> getImagePair(db, f.data.pair_id)])

submitPlayerChoice_pair(db, f) ==
    IF f.local.session = Null THEN Throw(db, f, "SessionNotFound")
    ELSE IF f.local.session.is_completed THEN Throw(db, f, "SessionAlreadyCompleted")
    ELSE Await(db, f, "getImagePairById", [pair |-> getImagePair(db, f.data.pair_id)])

submitPlayerChoice_points(db, f) ==
    LET session == f.local.session
        pair == f.local.pair
        isCorrect == (f.data.player_choice = "ai")
    IN  IF pair = Null THEN Throw(db, f, "PairNotFound")
        ELSE Await(db, f, "getGameRoundsBySession",
                   [isCorrect |-> isCorrect,
                    pointsEarned |-> calculatePoints(isCorrect, f.data.response_time,
                                         pair.difficulty_level, session.current_streak,
                                         session.game_mode),
                    existingRounds |-> getGameRoundsBySession(db, f.data.session_id)])

submitPlayerChoice_round(db, f, t) ==
    LET round == [session_id |-> f.data.session_id,
                  pair_id |-> f.data.pair_id,
                  player_choice |-> f.data.player_choice,
                  correct_answer |-> "ai",
                  is_correct |-> f.local.isCorrect,
                  response_time |-> f.data.response_time,
                  points_earned |-> f.local.pointsEarned,
                  round_number |-> Len(f.local.existingRounds) + 1]
    IN  Await(createGameRound(db, round), f, "createGameRound",
              [round |-> round, gameResult |-> Null])

\* (variant: a miss does not end a streak game)
streakBroken_never(session, isCorrect) == FALSE

\* streak mode: a wrong answer ends the game
streakBroken(session, isCorrect) == session.game_mode = "streak" /\ ~isCorrect

\* (variant: a daily game ends one round late)
dailyOver_late(session, newRoundsCompleted) ==
    session.game_mode = "daily" /\ newRoundsCompleted > 3

\* (variant: a game of either mode ends after 3 rounds)
dailyOver_anyMode(session, newRoundsCompleted) == newRoundsCompleted >= 3

\* daily mode: the game is complete after 3 rounds
dailyOver(session, newRoundsCompleted) ==
    session.game_mode = "daily" /\ newRoundsCompleted >= 3

\* (variant: a correct answer advances the streak in either mode)
submitPlayerChoice_session_streakInAnyMode(db, f, t) ==
    LET session == f.local.session
        isCorrect == f.local.isCorrect
        newTotalScore == session.total_score + f.local.pointsEarned
        newRoundsCompleted == session.rounds_completed + 1
        newCurrentStreak == IF isCorrect
                            THEN session.current_streak + 1
                            ELSE session.current_streak
        ends == streakBroken(session, isCorrect) \/ dailyOver(session, newRoundsCompleted)
    IN  IF ends
        THEN endGameSession_enter(db, f,
                 [total_score |-> newTotalScore,
                  rounds_completed |-> newRoundsCompleted,
                  current_streak |-> newCurrentStreak,
                  is_completed |-> TRUE,
                  end_time |-> t])
        ELSE Await(updateGameSession(db, f.data.session_id,
                       [total_score |-> newTotalScore,
                        rounds_completed |-> newRoundsCompleted,
                        current_streak |-> newCurrentStreak]),
                   f, "updateGameSession", Undefined)

\* (variant: the score of the session is the points of its last round)
submitPlayerChoice_session_lastPointsOnly(db, f, t) ==
    LET session == f.local.session
        isCorrect == f.local.isCorrect
        newTotalScore == f.local.pointsEarned
        newRoundsCompleted == session.rounds_completed + 1
        newCurrentStreak == IF session.game_mode = "streak" /\ isCorrect
                            THEN session.current_streak + 1
                            ELSE session.current_streak
        ends == streakBroken(session, isCorrect) \/ dailyOver(session, newRoundsCompleted)
    IN  IF ends
        THEN endGameSession_enter(db, f,
                 [total_score |-> newTotalScore,
                  rounds_completed |-> newRoundsCompleted,
                  current_streak |-> newCurrentStreak,
                  is_completed |-> TRUE,
                  end_time |-> t])
        ELSE Await(updateGameSession(db, f.data.session_id,
                       [total_score |-> newTotalScore,
                        rounds_completed |-> newRoundsCompleted,
                        current_streak |-> newCurrentStreak]),
                   f, "updateGameSession", Undefined)

submitPlayerChoice_session(db, f, t) ==
    LET session == f.local.session
        isCorrect == f.local.isCorrect
        newTotalScore == session.total_score + f.local.pointsEarned
        newRoundsCompleted == session.rounds_completed + 1
        newCurrentStreak == IF session.game_mode = "streak" /\ isCorrect
                            THEN session.current_streak + 1
                            ELSE session.current_streak
        ends == streakBroken(session, isCorrect) \/ dailyOver(session, newRoundsCompleted)
    IN  IF ends
        THEN endGameSession_enter(db, f,
                 [total_score |-> newTotalScore,
                  rounds_completed |-> newRoundsCompleted,
                  current_streak |-> newCurrentStreak,
                  is_completed |-> TRUE,
                  end_time |-> t])
        ELSE Await(updateGameSession(db, f.data.session_id,
                       [total_score |-> newTotalScore,
                        rounds_completed |-> newRoundsCompleted,
                        current_streak |-> newCurrentStreak]),
                   f, "updateGameSession", Undefined)

(***************************************************************************)
(* GameService.startGameSession                                            *)
(***************************************************************************)
startGameSession_create(db, f) ==
    Await(createGameSession(db, f.local.newSession), f, "createGameSession", Undefined)

\* (variant: the session is dated whatever its mode)
startGameSession_enter_alwaysDated(db, f, t) ==
    LET session == [player_id |-> f.data.player_id,
                    game_mode |-> f.data.game_mode,
                    end_time |-> NoTime,
                    total_score |-> 0,
                    rounds_completed |-> 0,
                    current_streak |-> 0,
                    is_completed |-> FALSE,
                    daily_challenge_date |->
                        getTodayString(t)]
        f2 == [f EXCEPT !.local = Spread(@, [newSession |-> session])]
    IN  IF f.data.game_mode = "daily" /\ f.data.player_id # NoPlayer
        THEN Await(db, f2, "getTodaysDailySession",
                   [existingSession |-> getTodaysDailySession(db, f.data.player_id, t)])
        ELSE startGameSession_create(db, f2)

startGameSession_enter(db, f, t) ==
    LET session == [player_id |-> f.data.player_id,
                    game_mode |-> f.data.game_mode,
                    end_time |-> NoTime,
                    total_score |-> 0,
                    rounds_completed |-> 0,
                    current_streak |-> 0,
                    is_completed |-> FALSE,
                    daily_challenge_date |->
                        IF f.data.game_mode = "daily" THEN getTodayString(t) ELSE NoDate]
        f2 == [f EXCEPT !.local = Spread(@, [newSession |-> session])]
    IN  IF f.data.game_mode = "daily" /\ f.data.player_id # NoPlayer
        THEN Await(db, f2, "getTodaysDailySession",
                   [existingSession |-> getTodaysDailySession(db, f.data.player_id, t)])
        ELSE startGameSession_create(db, f2)

startGameSession_check(db, f) ==
    IF f.local.existingSession # Null /\ f.local.existingSession.is_completed
    THEN Throw(db, f, "DuplicateDailyAttempt")
    ELSE startGameSession_create(db, f)

\* the id of the session just stored is its position in the Map
startGameSession_return(db, f) == Return(db, f, [session_id |-> Len(db.gameSessions)])

(***************************************************************************)
(* DatabaseService.getAllImagePairs : the ids of the pairs that pass the   *)
(* filters, in insertion order.  filters.difficulty is applied when it is  *)
(* truthy (0 stands for undefined), filters.is_active when it is present;  *)
(* the engine never filters by category.                                   *)
(***************************************************************************)
getAllImagePairs(db, filters) ==
    SelectSeq([i \in 1..Len(db.imagePairs) |-> i],
              LAMBDA i : /\ filters.difficulty # 0 =>
                                db.imagePairs[i].difficulty_level = filters.difficulty
                         /\ "is_active" \in DOMAIN filters =>
                                db.imagePairs[i].is_active = filters.is_active)

PageLimit == 20

\* ImagePairService.getAllImagePairs({is_active: true}) : the first page of the above
getAllImagePairsPage(db) ==
    LET allPairs == getAllImagePairs(db, [difficulty |-> 0, is_active |-> TRUE])
    IN  SubSeq(allPairs, 1, IF Len(allPairs) < PageLimit THEN Len(allPairs) ELSE PageLimit)

(***************************************************************************)
(* ImagePairService.selectPairForGame.  Weights are kept in 1/10000.       *)
(* random in 0..4 stands for Math.random() = random / 5.                   *)
(***************************************************************************)
TopCandidates == 5

pairWeight(db, availablePairs, i) ==
    LET pair == db.imagePairs[i]
        sumUsage == SumSeq([k \in 1..Len(availablePairs) |->
                               db.imagePairs[availablePairs[k]].total_attempts])
        successRateDiff == IF pair.success_rate >= 5000 THEN pair.success_rate - 5000
                           ELSE 5000 - pair.success_rate
    IN  10000
        + (IF pair.total_attempts * Len(availablePairs) < sumUsage THEN 5000 ELSE 0)
        + (5000 - successRateDiff)

\* the stable sort by descending weight: the position of the k-th candidate
sortedPosition(db, availablePairs, k) ==
    1 + Cardinality({j \in 1..Len(availablePairs) :
          \/ pairWeight(db, availablePairs, availablePairs[j])
                 > pairWeight(db, availablePairs, availablePairs[k])
          \/ /\ pairWeight(db, availablePairs, availablePairs[j])
                    = pairWeight(db, availablePairs, availablePairs[k])
             /\ j < k})

\* (variant: the pick is made among the last of the sorted candidates)
selectPairForGame_pick_lightest(db, availablePairs, n, random) ==
    IF n = 0 THEN NoPair
    ELSE availablePairs[CHOOSE k \in 1..n :
             sortedPosition(db, availablePairs, k)
                 = n - ((random * (IF n < TopCandidates THEN n ELSE TopCandidates)) \div 5)]

\* the candidates sorted by weight, and the one Math.random() picks among the
\* first TopCandidates of them
selectPairForGame_pick(db, availablePairs, n, random) ==
    LET weightedPairs == [pos \in 1..n |->
            availablePairs[CHOOSE k \in 1..n : sortedPosition(db, availablePairs, k) = pos]]
        top == IF n < TopCandidates THEN n ELSE TopCandidates
        selectedIndex == (random * top) \div 5
    IN  IF n = 0 THEN NoPair ELSE weightedPairs[selectedIndex + 1]

\* (variant: the pairs already played are not filtered out)
selectPairForGame_available_all(allPairs, excludePairIds) == allPairs

selectPairForGame_available(allPairs, excludePairIds) ==
    SelectSeq(allPairs, LAMBDA i : i \notin excludePairIds)

selectPairForGame_from(db, availablePairs, random) ==
    selectPairForGame_pick(db, availablePairs, Len(availablePairs), random)

\* (variant: pairs that are switched off are candidates too)
selectPairForGame_inactiveToo(db, difficulty, excludePairIds, random) ==
    selectPairForGame_from(db,
        selectPairForGame_available(
            getAllImagePairs(db, [difficulty |-> difficulty]),
            excludePairIds),
        random)

selectPairForGame(db, difficulty, excludePairIds, random) ==
    selectPairForGame_from(db,
        selectPairForGame_available(
            getAllImagePairs(db, [difficulty |-> difficulty, is_active |-> TRUE]),
            excludePairIds),
        random)

(***************************************************************************)
(* GameService.getNextPairForGame                                          *)
(***************************************************************************)
\* the distinct difficulty levels of the listed pairs, ascending
sortedLevels(levels) ==
    [pos \in 1..Cardinality(levels) |->
        CHOOSE d \in levels : Cardinality({e \in levels : e < d}) = pos - 1]

difficultyLevels(db, pairs) ==
    {db.imagePairs[pairs[k]].difficulty_level : k \in 1..Len(pairs)}

availableDifficulties(db) == sortedLevels(difficultyLevels(db, getAllImagePairsPage(db)))

\* daily mode: the difficulties that exist are spread over the 3 rounds
dailyDifficulty(avail, roundNumber) ==
    IF Len(avail) = 0 THEN 0
    ELSE IF Len(avail) = 1 THEN avail[1]
    ELSE IF Len(avail) >= 3
         THEN IF roundNumber = 1 THEN avail[1]
              ELSE IF roundNumber = 2 THEN avail[(Len(avail) \div 2) + 1]
              ELSE avail[Len(avail)]
    ELSE avail[IF roundNumber <= 2 THEN 1 ELSE 2]

\* (variant: the steps of ScoreCalculator.getDifficultyFromStreak)
streakDifficulty_byFives(streak) ==
    IF streak < 5 THEN 1
    ELSE IF streak < 10 THEN 2
    ELSE IF streak < 15 THEN 3
    ELSE IF streak < 20 THEN 4
    ELSE 5

\* streak mode: the difficulty rises with the streak
streakDifficulty(streak) ==
    IF streak < 3 THEN 1
    ELSE IF streak < 7 THEN 2
    ELSE IF streak < 12 THEN 3
    ELSE IF streak < 20 THEN 4
    ELSE 5

targetDifficulty(db, session, roundNumber) ==
    IF session.game_mode = "daily"
    THEN dailyDifficulty(availableDifficulties(db), roundNumber)
    ELSE streakDifficulty(session.current_streak)

\* no pair of that difficulty: any difficulty
retryAnyDifficulty(db, pair, difficulty, usedPairIds, random) ==
    IF pair = NoPair /\ difficulty # 0
    THEN selectPairForGame(db, 0, usedPairIds, random) ELSE pair

\* still none: pairs already played are allowed again
retryUsedPairs(db, pair, difficulty, random) ==
    IF pair = NoPair THEN selectPairForGame(db, difficulty, {}, random) ELSE pair

\* still none: any active pair
retryAnyPair(db, pair, random) ==
    IF pair = NoPair THEN selectPairForGame(db, 0, {}, random) ELSE pair

\* (variant: a played pair of the difficulty is preferred to an unplayed
\* pair of another difficulty)
getNextPairForGame_select_repeatsFirst(db, difficulty, usedPairIds, random) ==
    retryAnyPair(db,
        retryAnyDifficulty(db,
            retryUsedPairs(db,
                selectPairForGame(db, difficulty, usedPairIds, random),
                difficulty, random),
            difficulty, usedPairIds, random),
        random)

getNextPairForGame_select(db, difficulty, usedPairIds, random) ==
    retryAnyPair(db,
        retryUsedPairs(db,
            retryAnyDifficulty(db,
                selectPairForGame(db, difficulty, usedPairIds, random),
                difficulty, usedPairIds, random),
            difficulty, random),
        random)

getNextPairForGame_load(db, f, session, roundNumber, pair) ==
    IF pair = NoPair
    THEN IF Len(getAllImagePairsPage(db)) = 0
         THEN Throw(db, f, "NoPairsAvailable:none")
         ELSE Throw(db, f, "NoPairsAvailable:unsuitable")
    ELSE IF \/ getImage(db, db.imagePairs[pair].ai_image_id) = Null
            \/ getImage(db, db.imagePairs[pair].real_image_id) = Null
         THEN Throw(db, f, "FailedToLoadPair")
    ELSE Return(db, f, [session_id |-> f.data.session_id,
                        pair |-> pair,
                        round_number |-> roundNumber,
                        current_streak |-> session.current_streak,
                        total_score |-> session.total_score])

usedPairIdsOf(playedRounds) == {playedRounds[k].pair_id : k \in 1..Len(playedRounds)}

getNextPairForGame_rounds(db, f, session, playedRounds) ==
    getNextPairForGame_load(db, f, session, Len(playedRounds) + 1,
        getNextPairForGame_select(db,
            targetDifficulty(db, session, Len(playedRounds) + 1),
            usedPairIdsOf(playedRounds), f.local.random))

\* (variant: a pair is handed out for a completed session too)
getNextPairForGame_session_unchecked(db, f, session) ==
    IF session = Null THEN Throw(db, f, "SessionNotFound")
    ELSE getNextPairForGame_rounds(db, f, session,
             getGameRoundsBySession(db, f.data.session_id))

getNextPairForGame_session(db, f, session) ==
    IF session = Null THEN Throw(db, f, "SessionNotFound")
    ELSE IF session.is_completed THEN Throw(db, f, "SessionAlreadyCompleted")
    ELSE getNextPairForGame_rounds(db, f, session,
             getGameRoundsBySession(db, f.data.session_id))

getNextPairForGame(db, f) ==
    getNextPairForGame_session(db, f, getGameSession(db, f.data.session_id))

(***************************************************************************)
(* ImagePairService.createImagePair                                        *)
(***************************************************************************)
createImagePair_anyTwoImages(db, f) ==
    IF getImage(db, f.data.ai_image_id) = Null \/ getImage(db, f.data.real_image_id) = Null
    THEN Throw(db, f, "ImageNotFound")
    ELSE Return(createImagePairRecord(db,
                    [ai_image_id |-> f.data.ai_image_id,
                     real_image_id |-> f.data.real_image_id,
                     difficulty_level |-> Max(getImage(db, f.data.ai_image_id).difficulty_level,
                                              getImage(db, f.data.real_image_id).difficulty_level),
                     success_rate |-> 0, total_attempts |-> 0, correct_guesses |-> 0,
                     average_response_time |-> 0, is_active |-> TRUE]),
                f, [pair_id |-> Len(db.imagePairs) + 1])

createImagePair(db, f) ==
    LET aiImage == getImage(db, f.data.ai_image_id)
        realImage == getImage(db, f.data.real_image_id)
        duplicate == \E k \in 1..Len(db.imagePairs) :
            \/ /\ db.imagePairs[k].ai_image_id = f.data.ai_image_id
               /\ db.imagePairs[k].real_image_id = f.data.real_image_id
            \/ /\ db.imagePairs[k].ai_image_id = f.data.real_image_id
               /\ db.imagePairs[k].real_image_id = f.data.ai_image_id
        imagePair == [ai_image_id |-> f.data.ai_image_id,
                      real_image_id |-> f.data.real_image_id,
                      difficulty_level |-> Max(aiImage.difficulty_level,
                                               realImage.difficulty_level),
                      success_rate |-> 0,
                      total_attempts |-> 0,
                      correct_guesses |-> 0,
                      average_response_time |-> 0,
                      is_active |-> TRUE]
    IN  IF aiImage = Null \/ realImage = Null THEN Throw(db, f, "ImageNotFound")
        ELSE IF aiImage.is_ai_generated = realImage.is_ai_generated
             THEN Throw(db, f, "InvalidPairComposition")
        ELSE IF ~aiImage.is_ai_generated THEN Throw(db, f, "InvalidPairComposition")
        ELSE IF realImage.is_ai_generated THEN Throw(db, f, "InvalidPairComposition")
        ELSE IF duplicate THEN Throw(db, f, "PairAlreadyExists")
        ELSE Return(createImagePairRecord(db, imagePair), f, [pair_id |-> Len(db.imagePairs) + 1])

(***************************************************************************)
(* GameService.getLeaderboard.  The sessions are listed with               *)
(* Object.values(this.db["gameSessions"]); playerStats is a Map, kept here *)
(* as the sequence of its values in insertion order (set() on a key the    *)
(* Map holds keeps the key's place).  Array.prototype.sort is stable.      *)
(* The last_played field of an entry is left out.  A game_mode of          *)
(* "undefined" is the absent argument: sessions of both modes count.       *)
(***************************************************************************)
groupSession(playerStats, session, playerId) ==
    IF \A k \in DOMAIN playerStats : playerStats[k].player_id # playerId
    THEN Append(playerStats, [player_id |-> playerId,
                              best_score |-> session.total_score,
                              best_streak |-> session.current_streak,
                              total_games |-> 1])
    ELSE [k \in DOMAIN playerStats |->
            IF playerStats[k].player_id # playerId THEN playerStats[k]
            ELSE IF session.total_score > playerStats[k].best_score
                 THEN [player_id |-> playerId,
                       best_score |-> session.total_score,
                       best_streak |-> session.current_streak,
                       total_games |-> playerStats[k].total_games + 1]
                 ELSE [playerStats[k] EXCEPT
                          !.total_games = @ + 1,
                          !.best_streak = Max(@, session.current_streak)]]

RECURSIVE groupByPlayer(_, _)
groupByPlayer(filteredSessions, n) ==
    IF n = 0 THEN << >>
    ELSE groupSession(groupByPlayer(filteredSessions, n - 1), filteredSessions[n],
                      IF filteredSessions[n].player_id = NoPlayer THEN "anonymous"
                      ELSE filteredSessions[n].player_id)

\* .sort((a, b) => b.best_score - a.best_score)
sortByBestScore(players) ==
    [k \in DOMAIN players |->
        players[CHOOSE i \in DOMAIN players :
            k = 1 + Cardinality({j \in DOMAIN players :
                        \/ players[j].best_score > players[i].best_score
                        \/ /\ players[j].best_score = players[i].best_score
                           /\ j < i})]]

\* .slice(0, limit).map((player, index) => ({ rank: index + 1, ...player }))
rankTop(sorted, limit) ==
    [k \in 1..(IF limit < Len(sorted) THEN limit ELSE Len(sorted)) |->
        Spread(sorted[k], [rank |-> k])]

leaderboardOf(allSessions, gameMode, limit) ==
    rankTop(sortByBestScore(groupByPlayer(
                SelectSeq(allSessions,
                    LAMBDA s : /\ s.is_completed
                               /\ gameMode # "undefined" => s.game_mode = gameMode),
                Len(SelectSeq(allSessions,
                    LAMBDA s : /\ s.is_completed
                               /\ gameMode # "undefined" => s.game_mode = gameMode)))),
            limit)

getLeaderboard(db, f) ==
    Return(db, f, [leaderboard |->
                      leaderboardOf(ObjectValues(db.gameSessions),
                                    f.data.game_mode, f.data.limit)])

(***************************************************************************)
(* ImagePairService.togglePairActive and ImageService.updateImage: what an *)
(* administrator does to a pair and to an image after they were stored     *)
(***************************************************************************)
\* (variant: switching a pair also clears its attempts)
togglePairActive_clearsAttempts(db, f) ==
    IF getImagePair(db, f.data.pair_id) = Null THEN Return(db, f, Null)
    ELSE Return(updateImagePair(db, f.data.pair_id,
                    [is_active |-> ~getImagePair(db, f.data.pair_id).is_active,
                     total_attempts |-> 0]),
                f, [pair_id |-> f.data.pair_id])

togglePairActive(db, f) ==
    IF getImagePair(db, f.data.pair_id) = Null THEN Return(db, f, Null)
    ELSE Return(updateImagePair(db, f.data.pair_id,
                    [is_active |-> ~getImagePair(db, f.data.pair_id).is_active]),
                f, [pair_id |-> f.data.pair_id])

imageService_updateImage(db, f) ==
    Return(updateImage(db, f.data.id, f.data.updates), f,
           IF getImage(db, f.data.id) = Null THEN Null ELSE [image_id |-> f.data.id])

(***************************************************************************)
(* Resume(db, f, t): the call f runs from the await it is suspended at to  *)
(* its next await (or to its end), on store db at time t.                  *)
(* createImagePair and getNextPairForGame are run in one piece: they are   *)
(* only ever run one at a time.                                            *)
(***************************************************************************)
Resume(db, f, t) ==
    CASE f.pc = "enter" /\ f.op = "start" -> startGameSession_enter(db, f, t)
      [] f.pc = "getTodaysDailySession" -> startGameSession_check(db, f)
      [] f.pc = "createGameSession" -> startGameSession_return(db, f)
      [] f.pc = "enter" /\ f.op = "nextPair" -> getNextPairForGame(db, f)
      [] f.pc = "enter" /\ f.op = "createPair" -> createImagePair(db, f)
      [] f.pc = "enter" /\ f.op = "togglePair" -> togglePairActive(db, f)
      [] f.pc = "enter" /\ f.op = "leaderboard" -> getLeaderboard(db, f)
      [] f.pc = "enter" /\ f.op = "selectPair" ->
             Return(db, f, [pair |-> selectPairForGame(db, f.data.difficulty,
                                        f.data.excludePairIds, f.local.random)])
      [] f.pc = "enter" /\ f.op = "updateImage" -> imageService_updateImage(db, f)
      [] f.pc = "enter" /\ f.op = "submit" -> submitPlayerChoice_enter(db, f)
      [] f.pc = "getGameSession" -> submitPlayerChoice_pair(db, f)
      [] f.pc = "getImagePairById" -> Await(db, f, "getImagePairById_return", Undefined)
      [] f.pc = "getImagePairById_return" -> submitPlayerChoice_points(db, f)
      [] f.pc = "getGameRoundsBySession" -> submitPlayerChoice_round(db, f, t)
      [] f.pc = "createGameRound" -> submitPlayerChoice_session(db, f, t)
      [] f.pc = "updateGameSession" -> updatePairStats_enter(db, f)
      [] f.pc = "enter" /\ f.op = "end" -> endGameSession_enter(db, f, Undefined)
      [] f.pc = "end_getGameSession" -> endGameSession_update(db, f, t)
      [] f.pc = "end_updateGameSession" -> endGameSession_rounds(db, f)
      [] f.pc = "end_getGameRoundsBySession" -> endGameSession_return(db, f)
      [] f.pc = "end_return" -> updatePairStats_enter(db, f)
      [] f.pc = "stats_getImagePair" -> updatePairStats_write(db, f)
      [] f.pc = "stats_updateImagePair" ->
             incrementUsageCount_enter(db, f, f.local.statPair.ai_image_id, "ai")
      [] f.pc = "inc_ai_getImage" ->
             IF f.local.image = Null
             THEN Await(db, f, "inc_ai_return", Undefined)
             ELSE incrementUsageCount_write(db, f, "ai")
      [] f.pc = "inc_ai_updateImage" -> Await(db, f, "inc_ai_return", Undefined)
      [] f.pc = "inc_ai_return" ->
             incrementUsageCount_enter(db, f, f.local.statPair.real_image_id, "real")
      [] f.pc = "inc_real_getImage" ->
             IF f.local.image = Null
             THEN Await(db, f, "inc_real_return", Undefined)
             ELSE incrementUsageCount_write(db, f, "real")
      [] f.pc = "inc_real_updateImage" -> Await(db, f, "inc_real_return", Undefined)
      [] f.pc = "inc_real_return" -> Await(db, f, "stats_return", Undefined)
      [] f.pc = "stats_return" -> Return(db, f, submitResult(f))

\* the call runs to its end with no other call in between
RECURSIVE Run(_, _, _)
Run(db, f, t) ==
    IF f.pc = "done" THEN [db |-> db, f |-> f]
    ELSE LET r == Resume(db, f, t) IN Run(r.db, r.f, t)

Store(c, r) ==
    /\ images' = r.db.images
    /\ imagePairs' = r.db.imagePairs
    /\ gameSessions' = r.db.gameSessions
    /\ gameRounds' = r.db.gameRounds
    /\ calls' = [calls EXCEPT ![c] = r.f]
    /\ UNCHANGED <<now, adminRateLimitStore>>

\* a call run to its end leaves no continuation behind
Serial(c, r) == Store(c, r) /\ UNCHANGED microtasks

\* a call suspended at an await joins the queue of microtasks
Suspend(c, r, queue) ==
    /\ Store(c, r)
    /\ microtasks' = IF r.f.pc = "done" THEN queue ELSE Append(queue, c)

(***************************************************************************)
(* The requests a client can make                                          *)
(***************************************************************************)
SessionIds == 1..MaxSessions
\* the ids of the pairs of the catalogue and one id that no pair has
PairIds == 1..3

StartFrames(modes) ==
    {Frame("start", [game_mode |-> m, player_id |-> p]) :
        m \in modes, p \in Players}

SubmitFrames(pairIds) ==
    {Frame("submit", [session_id |-> s, pair_id |-> p, player_choice |-> ch,
                      response_time |-> rt]) :
        s \in SessionIds, p \in pairIds, ch \in PlayerChoices, rt \in ResponseTimes}

EndFrames == {Frame("end", [session_id |-> s]) : s \in SessionIds}

\* the values of Math.random() tried, in fifths: with the two pairs of the
\* catalogue they reach every index of the shortlist
RandomFifths == {0, 3}

NextPairFrames ==
    {WithRandom(Frame("nextPair", [session_id |-> s]), r) :
        s \in SessionIds, r \in RandomFifths}

(***************************************************************************)
(* Initial state: the store holds four uploaded images and the two pairs   *)
(* made of them; nobody has played yet.                                    *)
(***************************************************************************)
LoadedImages ==
    << [is_ai_generated |-> TRUE,  difficulty_level |-> 1, usage_count |-> 0],
       [is_ai_generated |-> TRUE,  difficulty_level |-> 3, usage_count |-> 0],
       [is_ai_generated |-> FALSE, difficulty_level |-> 1, usage_count |-> 0],
       [is_ai_generated |-> FALSE, difficulty_level |-> 2, usage_count |-> 0] >>

\* the pairs an administrator has made of them, by createImagePair
Catalogue ==
    LET empty == [images |-> LoadedImages, imagePairs |-> << >>,
                  gameSessions |-> << >>, gameRounds |-> << >>]
        first == Run(empty, Frame("createPair", [ai_image_id |-> 1, real_image_id |-> 3]), 0)
    IN  Run(first.db, Frame("createPair", [ai_image_id |-> 2, real_image_id |-> 4]), 0).db

Init ==
    /\ images = Catalogue.images
    /\ imagePairs = Catalogue.imagePairs
    /\ gameSessions = << >>
    /\ gameRounds = << >>
    /\ now = 0
    /\ calls = [c \in Clients |-> IdleFrame]
    /\ microtasks = << >>
    /\ adminRateLimitStore = EmptyMap

(***************************************************************************)
(* Operations one at a time: client c1 makes a call and the call runs to   *)
(* its end.                                                                *)
(***************************************************************************)
StartGameSession(c, modes) ==
    /\ Len(gameSessions) < MaxSessions
    /\ \E f \in StartFrames(modes) : LET r == Run(DB, f, now) IN Serial(c, r)

GetNextPairForGame(c) ==
    \E f \in NextPairFrames : LET r == Run(DB, f, now) IN Serial(c, r)

\* a submission that fails is always possible; one that stores a round is
\* possible while the store holds fewer than MaxRounds rounds
SubmitPlayerChoice(c, pairIds) ==
    \E f \in SubmitFrames(pairIds) :
        LET r == Run(DB, f, now)
        IN  /\ Len(r.db.gameRounds) <= MaxRounds
            /\ Serial(c, r)

EndGameSession(c) ==
    \E f \in EndFrames : LET r == Run(DB, f, now) IN Serial(c, r)

\* sessions of both modes, played on the first pair of the catalogue (or
\* on a pair that does not exist)
Next ==
    \/ StartGameSession("c1", GameModes)
    \/ GetNextPairForGame("c1")
    \/ SubmitPlayerChoice("c1", {1, 3})
    \/ EndGameSession("c1")

Spec == Init /\ [][Next]_vars

\* streak sessions, played on any pair
NextStats ==
    \/ StartGameSession("c1", {"streak"})
    \/ GetNextPairForGame("c1")
    \/ SubmitPlayerChoice("c1", PairIds)
    \/ EndGameSession("c1")

SpecStats == Init /\ [][NextStats]_vars

(***************************************************************************)
(* The same requests with time passing between them: streak sessions      *)
(* played on the first pair, started, played and ended on different days.  *)
(***************************************************************************)
MaxTicks == 2

Tick ==
    /\ now < MaxTicks
    /\ now' = now + 1
    /\ UNCHANGED <<images, imagePairs, gameSessions, gameRounds, calls, microtasks,
                   adminRateLimitStore>>

NextClock ==
    \/ StartGameSession("c1", {"streak"})
    \/ SubmitPlayerChoice("c1", {1})
    \/ EndGameSession("c1")
    \/ Tick

SpecClock == Init /\ [][NextClock]_vars

(***************************************************************************)
(* Pair selection over different catalogues.  A catalogue is described by  *)
(* the difficulty d of each of its pairs (the difficulty of both images of *)
(* the pair) and by whether the pair is active (a: an administrator has    *)
(* switched some pairs off).  One session of either mode is played on it,  *)
(* the client submitting any pair of the catalogue, given to it or not.    *)
(***************************************************************************)
MaxSelectSessions == 1

SelectCatalogues ==
    { << >>,
      << [d |-> 2, a |-> FALSE] >>,
      << [d |-> 2, a |-> TRUE] >>,
      << [d |-> 1, a |-> TRUE], [d |-> 3, a |-> TRUE] >>,
      << [d |-> 1, a |-> FALSE], [d |-> 3, a |-> TRUE] >>,
      << [d |-> 1, a |-> TRUE], [d |-> 1, a |-> TRUE], [d |-> 3, a |-> TRUE] >>,
      << [d |-> 1, a |-> TRUE], [d |-> 2, a |-> TRUE], [d |-> 3, a |-> TRUE] >>,
      << [d |-> 1, a |-> TRUE], [d |-> 2, a |-> FALSE], [d |-> 3, a |-> TRUE] >>,
      << [d |-> 1, a |-> TRUE], [d |-> 2, a |-> TRUE], [d |-> 3, a |-> TRUE],
         [d |-> 4, a |-> TRUE] >> }

\* the store after the images of the catalogue were uploaded, each pair made
\* of its two images and the inactive pairs switched off
catalogueDb(cat) ==
    LET uploaded == [images |-> [i \in 1..(2 * Len(cat)) |->
                                    [is_ai_generated |-> i % 2 = 1,
                                     difficulty_level |-> cat[(i + 1) \div 2].d,
                                     usage_count |-> 0]],
                     imagePairs |-> << >>, gameSessions |-> << >>, gameRounds |-> << >>]
        made(n) == Run(uploaded, Frame("createPair", [ai_image_id |-> 2 * n - 1,
                                                      real_image_id |-> 2 * n]), 0).db
    IN  [uploaded EXCEPT !.imagePairs =
            [n \in 1..Len(cat) |->
                updateImagePair(made(n), 1, [is_active |-> cat[n].a]).imagePairs[1]]]

InitSelect ==
    /\ \E cat \in SelectCatalogues :
           /\ images = catalogueDb(cat).images
           /\ imagePairs = catalogueDb(cat).imagePairs
    /\ gameSessions = << >>
    /\ gameRounds = << >>
    /\ now = 0
    /\ calls = [c \in Clients |-> IdleFrame]
    /\ microtasks = << >>
    /\ adminRateLimitStore = EmptyMap

NextSelect ==
    \/ Len(gameSessions) < MaxSelectSessions /\ StartGameSession("c1", GameModes)
    \/ GetNextPairForGame("c1")
    \/ SubmitPlayerChoice("c1", DOMAIN imagePairs)

SpecSelect == InitSelect /\ [][NextSelect]_vars

(***************************************************************************)
(* Long sessions and long catalogues.  A client that asks for the next     *)
(* pair and plays the pair it was given: a streak session over one pair of *)
(* each difficulty, and a daily session over a catalogue of one pair more  *)
(* than a page of the pair list holds, the last pair the only easy one.    *)
(***************************************************************************)
MaxLadderRounds == 21

LadderCatalogue == [i \in 1..5 |-> [d |-> i, a |-> TRUE]]

PagedCatalogue == [i \in 1..(PageLimit + 1) |-> [d |-> IF i <= PageLimit THEN 3 ELSE 1, a |-> TRUE]]

InitLadder ==
    /\ \E start \in { [cat |-> LadderCatalogue, game_mode |-> "streak"],
                       [cat |-> PagedCatalogue, game_mode |-> "daily"] } :
           LET db == Run(catalogueDb(start.cat),
                         Frame("start", [game_mode |-> start.game_mode, player_id |-> "p1"]),
                         0).db
           IN  /\ images = db.images
               /\ imagePairs = db.imagePairs
               /\ gameSessions = db.gameSessions
    /\ gameRounds = << >>
    /\ now = 0
    /\ calls = [c \in Clients |-> IdleFrame]
    /\ microtasks = << >>
    /\ adminRateLimitStore = EmptyMap

PlayGivenPair(c) ==
    /\ calls[c].op = "nextPair"
    /\ calls[c].error = ""
    /\ \E ch \in PlayerChoices : \E rt \in ResponseTimes :
           LET r == Run(DB, Frame("submit", [session_id |-> calls[c].data.session_id,
                                            pair_id |-> calls[c].result.pair,
                                            player_choice |-> ch,
                                            response_time |-> rt]), now)
           IN  /\ Len(r.db.gameRounds) <= MaxLadderRounds
               /\ Serial(c, r)

NextLadder ==
    \/ GetNextPairForGame("c1")
    \/ PlayGivenPair("c1")

SpecLadder == InitLadder /\ [][NextLadder]_vars

(***************************************************************************)
(* The administration of the catalogue: out of the four uploaded images    *)
(* (and the id of an image that does not exist) an administrator makes     *)
(* pairs, switches pairs off and on, and edits the difficulty of an image  *)
(* or what it is marked as; meanwhile one streak session is played on the  *)
(* first pair.                                                             *)
(***************************************************************************)
MaxPairs == 2

ImageIds == 1..(Len(LoadedImages) + 1)

CreatePairFrames ==
    {Frame("createPair", [ai_image_id |-> a, real_image_id |-> r]) :
        a \in ImageIds, r \in ImageIds}

ImageUpdates == {[difficulty_level |-> 5], [is_ai_generated |-> FALSE]}

InitPairs ==
    /\ images = LoadedImages
    /\ imagePairs = << >>
    /\ gameSessions = << >>
    /\ gameRounds = << >>
    /\ now = 0
    /\ calls = [c \in Clients |-> IdleFrame]
    /\ microtasks = << >>
    /\ adminRateLimitStore = EmptyMap

CreateImagePair(c) ==
    /\ Len(imagePairs) < MaxPairs
    /\ \E f \in CreatePairFrames : LET r == Run(DB, f, now) IN Serial(c, r)

TogglePairActive(c) ==
    \E p \in {1, MaxPairs + 1} :
        LET r == Run(DB, Frame("togglePair", [pair_id |-> p]), now) IN Serial(c, r)

UpdateImage(c) ==
    \E i \in {1, Len(LoadedImages) + 1} : \E u \in ImageUpdates :
        LET r == Run(DB, Frame("updateImage", [id |-> i, updates |-> u]), now)
        IN  Serial(c, r)

NextPairs ==
    \/ CreateImagePair("c1")
    \/ TogglePairActive("c1")
    \/ UpdateImage("c1")
    \/ Len(gameSessions) < MaxSelectSessions /\ StartGameSession("c1", {"streak"})
    \/ SubmitPlayerChoice("c1", {1}) /\ Len(gameRounds') < MaxRounds

SpecPairs == InitPairs /\ [][NextPairs]_vars

(***************************************************************************)
(* The operations of the engine together, one at a time: sessions of       *)
(* either mode are started, asked for pairs, played on the first pair (or  *)
(* on a pair that does not exist) and ended, while an administrator        *)
(* switches the first pair off and on; days pass before the first session  *)
(* is started.                                                             *)
(***************************************************************************)
NextEngine ==
    \/ StartGameSession("c1", GameModes)
    \/ GetNextPairForGame("c1")
    \/ SubmitPlayerChoice("c1", {1, 3}) /\ Len(gameRounds') <= MaxConcRounds
    \/ EndGameSession("c1")
    \/ TogglePairActive("c1")
    \/ gameSessions = << >> /\ Tick

SpecEngine == Init /\ [][NextEngine]_vars

(***************************************************************************)
(* The leaderboard.  The store holds either no session yet or the four     *)
(* completed streak sessions of players A, B, C and D that an              *)
(* administrator imported (AdminService.importData stores the sessions of  *)
(* a backup as they are); sessions of a player and of anonymous players    *)
(* are started, played on the first pair and ended, and the leaderboard is *)
(* asked for, of either mode or of both, with different limits.            *)
(***************************************************************************)
BoardPlayers == {"A", NoPlayer}

Limits == {3, 10}

importedSession(player, score, streak) ==
    [player_id |-> player, game_mode |-> "streak", end_time |-> 0,
     total_score |-> score, rounds_completed |-> streak, current_streak |-> streak,
     is_completed |-> TRUE, daily_challenge_date |-> NoDate]

ImportedSessions ==
    << importedSession("A", 300, 2), importedSession("B", 500, 4),
       importedSession("C", 500, 3), importedSession("D", 100, 1) >>

InitBoard ==
    /\ images = Catalogue.images
    /\ imagePairs = Catalogue.imagePairs
    /\ gameSessions \in {<< >>, ImportedSessions}
    /\ gameRounds = << >>
    /\ now = 0
    /\ calls = [c \in Clients |-> IdleFrame]
    /\ microtasks = << >>
    /\ adminRateLimitStore = EmptyMap

StartGameAs(c, players) ==
    /\ Len(gameSessions) < MaxSessions
    /\ \E p \in players : \E m \in GameModes :
           LET r == Run(DB, Frame("start", [game_mode |-> m, player_id |-> p]), now)
           IN  Serial(c, r)

GetLeaderboard(c) ==
    \E m \in GameModes \cup {"undefined"} : \E l \in Limits :
        LET r == Run(DB, Frame("leaderboard", [game_mode |-> m, limit |-> l]), now)
        IN  Serial(c, r)

NextBoard ==
    \/ StartGameAs("c1", BoardPlayers)
    \/ SubmitPlayerChoice("c1", {1}) /\ Len(gameRounds') < MaxRounds
    \/ EndGameSession("c1")
    \/ GetLeaderboard("c1")

SpecBoard == InitBoard /\ [][NextBoard]_vars

(***************************************************************************)
(* Rounds of different response times: streak sessions played on the first *)
(* pair, the player answering after 1000 or after 1001 milliseconds.       *)
(***************************************************************************)
PairTimes == {1000, 1001}

SubmitTimed(c) ==
    \E s \in SessionIds : \E ch \in PlayerChoices : \E rt \in PairTimes :
        LET r == Run(DB, Frame("submit", [session_id |-> s, pair_id |-> 1,
                                          player_choice |-> ch, response_time |-> rt]), now)
        IN  /\ Len(r.db.gameRounds) <= MaxRounds
            /\ Serial(c, r)

NextTimes ==
    \/ StartGameSession("c1", {"streak"})
    \/ SubmitTimed("c1")

SpecTimes == Init /\ [][NextTimes]_vars

(***************************************************************************)
(* Concurrent calls: each client has at most one call in flight; a call    *)
(* starts by running to its first await and is resumed one await at a      *)
(* time, in the order of the microtask queue, so the calls of the two      *)
(* clients interleave at their awaits.  A client may make its call at any  *)
(* moment, also while the other client's call is in flight.                *)
(* Two sessions have been started and nobody has played yet.               *)
(***************************************************************************)
Started ==
    LET first == Run([Catalogue EXCEPT !.gameSessions = << >>],
                     Frame("start", [game_mode |-> "streak", player_id |-> "p1"]), 0)
    IN  Run(first.db, Frame("start", [game_mode |-> "daily", player_id |-> "p1"]), 0).db

InitConc ==
    /\ images = Started.images
    /\ imagePairs = Started.imagePairs
    /\ gameSessions = Started.gameSessions
    /\ gameRounds = Started.gameRounds
    /\ now = 0
    /\ calls = [c \in Clients |-> IdleFrame]
    /\ microtasks = << >>
    /\ adminRateLimitStore = EmptyMap

\* submitPlayerChoice calls in flight that have not stored their round yet
RoundsToCome ==
    Cardinality({c \in Clients :
        calls[c].pc \in {"getGameSession", "getImagePairById", "getImagePairById_return",
                         "getGameRoundsBySession"}})

InvokeSubmitPlayerChoice(c) ==
    /\ calls[c].pc = "done"
    /\ Len(gameRounds) + RoundsToCome < MaxConcRounds
    /\ \E f \in SubmitFrames(PairIds) : LET r == Resume(DB, f, now) IN Suspend(c, r, microtasks)

InvokeEndGameSession(c) ==
    /\ calls[c].pc = "done"
    /\ \E f \in EndFrames : LET r == Resume(DB, f, now) IN Suspend(c, r, microtasks)

\* the microtask at the head of the queue runs
ResumeCall(c) ==
    /\ microtasks # << >>
    /\ c = Head(microtasks)
    /\ LET r == Resume(DB, calls[c], now) IN Suspend(c, r, Tail(microtasks))

NextConc ==
    \E c \in Clients :
        \/ InvokeSubmitPlayerChoice(c)
        \/ InvokeEndGameSession(c)
        \/ ResumeCall(c)

SpecConc == InitConc /\ [][NextConc]_vars

(***************************************************************************)
(* ScoreCalculator on its own: a caller holds the arguments of one call of *)
(* calculateScore, and the call returns.                                   *)
(***************************************************************************)
MaxStreak == 5
ScoreTimes == {0, 1500, 6250, 29999, 30000, 45000}
Difficulties == 1..5

ScoreFrames ==
    {Frame("calculateScore",
           [isCorrect |-> ok, responseTime |-> rt, difficulty |-> d, currentStreak |-> s]) :
        ok \in BOOLEAN, rt \in ScoreTimes, d \in Difficulties, s \in 0..MaxStreak}

InitScore ==
    /\ images = Catalogue.images
    /\ imagePairs = Catalogue.imagePairs
    /\ gameSessions = << >>
    /\ gameRounds = << >>
    /\ now = 0
    /\ calls \in [Clients -> ScoreFrames \cup {IdleFrame}]
    /\ calls["c2"] = IdleFrame
    /\ microtasks = << >>
    /\ adminRateLimitStore = EmptyMap

CalculateScore(c) ==
    /\ calls[c].op = "calculateScore"
    /\ calls[c].pc = "enter"
    /\ Serial(c, Return(DB, calls[c],
                        calculateScore(calls[c].data.isCorrect, calls[c].data.responseTime,
                                       calls[c].data.difficulty, calls[c].data.currentStreak)))

NextScore == \E c \in Clients : CalculateScore(c)

SpecScore == InitScore /\ [][NextScore]_vars

(***************************************************************************)
(* ImagePairService.selectPairForGame on its own.  The store holds a       *)
(* catalogue of up to MaxCandidates active pairs of difficulty 1 with the  *)
(* statistics of earlier play (restored from a backup, rounds and sessions *)
(* not included): never played, played twice with one correct answer, or   *)
(* played four times with one correct answer.  A caller holds one call     *)
(* with its criteria and the value Math.random() will return, in fifths,   *)
(* and the call returns.                                                   *)
(***************************************************************************)
MaxCandidates == 6

PairStats == {<<0, 0>>, <<2, 1>>, <<4, 1>>}

restoredPair(k, stat) ==
    [ai_image_id |-> 2 * k - 1, real_image_id |-> 2 * k, difficulty_level |-> 1,
     total_attempts |-> stat[1], correct_guesses |-> stat[2],
     success_rate |-> IF stat[1] = 0 THEN 0 ELSE RoundDiv(stat[2] * 10000, stat[1]),
     average_response_time |-> IF stat[1] = 0 THEN 0 ELSE 1500,
     is_active |-> TRUE]

SelectFrames ==
    {WithRandom(Frame("selectPair", [difficulty |-> d, excludePairIds |-> x]), r) :
        d \in {1}, x \in {{}, {1}}, r \in 0..4}

InitPick ==
    /\ \E n \in 1..MaxCandidates : \E stats \in [1..n -> PairStats] :
           /\ images = [i \in 1..(2 * n) |->
                            [is_ai_generated |-> i % 2 = 1, difficulty_level |-> 1,
                             usage_count |-> stats[(i + 1) \div 2][1]]]
           /\ imagePairs = [k \in 1..n |-> restoredPair(k, stats[k])]
    /\ gameSessions = << >>
    /\ gameRounds = << >>
    /\ now = 0
    /\ calls \in [Clients -> SelectFrames \cup {IdleFrame}]
    /\ calls["c1"] # IdleFrame
    /\ calls["c2"] = IdleFrame
    /\ microtasks = << >>
    /\ adminRateLimitStore = EmptyMap

SelectPairForGame(c) ==
    /\ calls[c].op = "selectPair"
    /\ calls[c].pc = "enter"
    /\ LET r == Run(DB, calls[c], now) IN Serial(c, r)

NextPick == \E c \in Clients : SelectPairForGame(c)

SpecPick == InitPick /\ [][NextPick]_vars

(***************************************************************************)
(* The two game clients when the time of a round runs out.  A view is what *)
(* a client holds while a round is open: the session and the pair that    *)
(* useGameSession keeps, the side on which the client drew the AI image,   *)
(* no selection, no result shown and, in the streak client, the lives      *)
(* left.  A handler returns the store it leaves and the requests it sent   *)
(* to the engine, each run to its end.                                     *)
(***************************************************************************)
Positions == {"left", "right"}
RoundSeconds == 30

\* what a handler leaves behind: the store and the requests it sent
Sent(db, frames) == [db |-> db, sent |-> frames]

\* useGameSession.startGame : start a session, then ask for its first pair
startGame_firstRound(started, random, t) ==
    IF started.f.error # "" THEN Sent(started.db, <<started.f>>)
    ELSE Sent(started.db,
              <<started.f,
                Run(started.db,
                    WithRandom(Frame("nextPair",
                        [session_id |-> started.f.result.session_id]), random),
                    t).f>>)

useGameSession_startGame(db, gameMode, playerId, random, t) ==
    startGame_firstRound(
        Run(db, Frame("start", [game_mode |-> gameMode, player_id |-> playerId]), t),
        random, t)

\* useGameSession.submitChoice : throws before any request when the client
\* holds no session or no round
submitChoice_sent(r) == Sent(r.db, <<r.f>>)

useGameSession_submitChoice(db, view, choice, responseTime, t) ==
    IF view.session \notin SessionIds \/ view.currentRound = NoPair
    THEN Sent(db, << >>)
    ELSE submitChoice_sent(
             Run(db, Frame("submit", [session_id |-> view.session,
                                      pair_id |-> view.currentRound,
                                      player_choice |-> choice,
                                      response_time |-> responseTime]), t))

\* DailyMode.handleImageSelect : the side chosen is the AI image when it is
\* the side on which the AI image was drawn
DailyMode_handleImageSelect(db, view, choice, t) ==
    IF view.selectedImage # "" \/ view.showResult \/ view.currentRound = NoPair
    THEN Sent(db, << >>)
    ELSE useGameSession_submitChoice(db, view,
             IF choice = view.aiImagePosition THEN "ai" ELSE "real",
             RoundSeconds * 1000, t)

\* DailyMode.handleTimeUp : the left image is selected for the player
DailyMode_handleTimeUp(db, view, t) ==
    IF ~view.showResult THEN DailyMode_handleImageSelect(db, view, "left", t)
    ELSE Sent(db, << >>)

\* StreakMode.handleWrongAnswer : a life is lost; with lives left the client
\* starts a new session under a new player id two seconds later
StreakMode_handleWrongAnswer(db, view, random, t) ==
    IF view.lives - 1 <= 0 THEN Sent(db, << >>)
    ELSE useGameSession_startGame(db, "streak", "streak-player", random, t)

StreakMode_handleTimeUp(db, view, random, t) ==
    IF ~view.showResult THEN StreakMode_handleWrongAnswer(db, view, random, t)
    ELSE Sent(db, << >>)

\* the views in which a timer can run out: a session in progress, the
\* first pair on screen, the AI image on either side, one or three lives
ClientViews ==
    {[mode |-> gameSessions[s].game_mode, session |-> s, currentRound |-> 1,
      aiImagePosition |-> a, selectedImage |-> "", showResult |-> FALSE, lives |-> l] :
        s \in {x \in DOMAIN gameSessions : ~gameSessions[x].is_completed},
        a \in Positions, l \in {1, 3}}

HandleTimeUp_store(c, view, h) ==
    /\ Len(h.db.gameSessions) <= MaxSessions
    /\ Len(h.db.gameRounds) <= MaxRounds
    /\ Serial(c, [db |-> h.db,
                  f |-> [Frame("timeUp", view) EXCEPT
                             !.pc = "done", !.result = [sent |-> h.sent]]])

HandleTimeUp(c) ==
    \E view \in ClientViews : \E random \in RandomFifths :
        HandleTimeUp_store(c, view,
            IF view.mode = "daily" THEN DailyMode_handleTimeUp(DB, view, now)
            ELSE StreakMode_handleTimeUp(DB, view, random, now))

\* sessions of both modes are started and played on the first pair, in time
\* or not
NextClient ==
    \/ StartGameSession("c1", GameModes)
    \/ SubmitPlayerChoice("c1", {1})
    \/ HandleTimeUp("c1")

SpecClient == Init /\ [][NextClient]_vars

(***************************************************************************)
(* adminRateLimit, the middleware in front of the administration routes.   *)
(* In this specification the clock counts milliseconds (Date.now()).       *)
(* Requests arrive from two addresses, at four instants: the start, the    *)
(* resetTime of a window opened at the start, and the millisecond after    *)
(* each of these two.  The first address sends as many requests as it      *)
(* likes, the second at most MaxOtherRequests in a window.                 *)
(***************************************************************************)
windowMs == 15 * 60 * 1000
maxRequests == 50
MaxOtherRequests == 2

ClientIPs == {"10.0.0.1", "10.0.0.2"}
AdminInstants == {0, windowMs, windowMs + 1, 2 * windowMs + 2}

\* store.set(key, record)
MapSet(store, key, record) ==
    [k \in DOMAIN store \cup {key} |-> IF k = key THEN record ELSE store[k]]

\* (variant: the request that finds the count at its maximum still goes
\* through)
adminRateLimit_oneMore(store, clientIP, t) ==
    IF clientIP \notin DOMAIN store \/ t > store[clientIP].resetTime
    THEN [store |-> MapSet(store, clientIP, [count |-> 1, resetTime |-> t + windowMs]),
          status |-> "next"]
    ELSE IF store[clientIP].count <= maxRequests
    THEN [store |-> MapSet(store, clientIP,
                        [store[clientIP] EXCEPT !.count = @ + 1]),
          status |-> "next"]
    ELSE [store |-> store, status |-> "429"]

\* next() or the response 429
adminRateLimit(store, clientIP, t) ==
    IF clientIP \notin DOMAIN store \/ t > store[clientIP].resetTime
    THEN [store |-> MapSet(store, clientIP, [count |-> 1, resetTime |-> t + windowMs]),
          status |-> "next"]
    ELSE IF store[clientIP].count < maxRequests
    THEN [store |-> MapSet(store, clientIP,
                        [store[clientIP] EXCEPT !.count = @ + 1]),
          status |-> "next"]
    ELSE [store |-> store, status |-> "429"]

AdminRequest_respond(c, ip, r) ==
    /\ adminRateLimitStore' = r.store
    /\ calls' = [calls EXCEPT ![c] =
                    [Frame("adminRequest", [clientIP |-> ip, now |-> now]) EXCEPT
                         !.pc = "done", !.result = [status |-> r.status]]]
    /\ UNCHANGED <<images, imagePairs, gameSessions, gameRounds, now, microtasks>>

AdminRequest(c) ==
    \E ip \in ClientIPs :
        /\ (ip # "10.0.0.1" /\ ip \in DOMAIN adminRateLimitStore)
               => adminRateLimitStore[ip].count < MaxOtherRequests
        /\ AdminRequest_respond(c, ip, adminRateLimit(adminRateLimitStore, ip, now))

TimePasses ==
    /\ \E t \in AdminInstants : t > now /\ now' = t
    /\ UNCHANGED <<images, imagePairs, gameSessions, gameRounds, calls, microtasks,
                   adminRateLimitStore>>

NextAdmin ==
    \/ AdminRequest("c1")
    \/ TimePasses

SpecAdmin == Init /\ [][NextAdmin]_vars

(***************************************************************************)
(* Vocabulary of the properties                                            *)
(***************************************************************************)
Sessions == DOMAIN gameSessions
Pairs == DOMAIN imagePairs

\* the positions in the store of the rounds of session s / against pair p
RoundsOfSession(s) == {i \in DOMAIN gameRounds : gameRounds[i].session_id = s}
RoundsOfPair(p) == {i \in DOMAIN gameRounds : gameRounds[i].pair_id = p}

Quiescent == \A c \in Clients : calls[c].pc = "done"

\* this step is a call of operation op by client c, run to its end
Called(c, op) ==
    /\ calls'[c] # calls[c]
    /\ calls'[c].op = op
    /\ calls'[c].pc = "done"

HasMiss(s) == \E i \in RoundsOfSession(s) : gameRounds[i].player_choice = "real"

(***************************************************************************)
(* C1.  In a streak session a submitted miss (player_choice = "real")      *)
(* leaves the session completed, and every later submitPlayerChoice on     *)
(* that session throws SessionAlreadyCompleted and stores no round.        *)
(***************************************************************************)
C1_StreakMissCompletes ==
    /\ [](\A s \in Sessions :
            gameSessions[s].game_mode = "streak" /\ HasMiss(s)
                => gameSessions[s].is_completed)
    /\ [][\A c \in Clients : \A s \in Sessions :
            /\ gameSessions[s].game_mode = "streak"
            /\ HasMiss(s)
            /\ Called(c, "submit")
            /\ calls'[c].data.session_id = s
            => /\ calls'[c].error = "SessionAlreadyCompleted"
               /\ gameRounds' = gameRounds]_vars

C1_Witness ==
    \E c \in Clients : \E s \in Sessions :
        /\ gameSessions[s].game_mode = "streak"
        /\ HasMiss(s)
        /\ gameSessions[s].is_completed
        /\ calls[c].op = "submit"
        /\ calls[c].data.session_id = s
        /\ calls[c].error = "SessionAlreadyCompleted"

(***************************************************************************)
(* C2.  In a daily session a successful submitPlayerChoice leaves the      *)
(* session completed exactly when it stored the session's 3rd round,       *)
(* whatever the choices; once the session has 3 rounds a further           *)
(* submitPlayerChoice throws SessionAlreadyCompleted and stores no round.  *)
(* (A session that is completed with fewer rounds was ended by hand.)      *)
(***************************************************************************)
C2_DailyThirdRoundCompletes ==
    [][\A c \in Clients : \A s \in Sessions :
        /\ gameSessions[s].game_mode = "daily"
        /\ Called(c, "submit")
        /\ calls'[c].data.session_id = s
        => /\ calls'[c].error = "" =>
                /\ ~gameSessions[s].is_completed
                /\ Cardinality(RoundsOfSession(s)) < 3
                /\ gameSessions'[s].is_completed
                       <=> (Cardinality(RoundsOfSession(s)) + 1 = 3)
           /\ Cardinality(RoundsOfSession(s)) >= 3 =>
                /\ calls'[c].error = "SessionAlreadyCompleted"
                /\ gameRounds' = gameRounds]_vars

C2_Witness ==
    \E c \in Clients : \E s \in Sessions :
        /\ gameSessions[s].game_mode = "daily"
        /\ Cardinality(RoundsOfSession(s)) = 3
        /\ \E i, j \in RoundsOfSession(s) :
              gameRounds[i].is_correct /\ ~gameRounds[j].is_correct
        /\ gameSessions[s].is_completed
        /\ calls[c].op = "submit"
        /\ calls[c].data.session_id = s
        /\ calls[c].error = "SessionAlreadyCompleted"

(***************************************************************************)
(* C3.  Completed is terminal: no operation makes a completed session      *)
(* incomplete again or stores a further round of it.                       *)
(***************************************************************************)
C3_CompletedIsTerminal ==
    [][\A s \in Sessions :
        gameSessions[s].is_completed
            => /\ gameSessions'[s].is_completed
               /\ {i \in DOMAIN gameRounds' : gameRounds'[i].session_id = s}
                      = RoundsOfSession(s)]_vars

\* a session that a miss completed has since been ended by hand, and is
\* still completed with the rounds it had
C3_Witness ==
    \E c \in Clients : \E s \in Sessions :
        /\ gameSessions[s].game_mode = "streak"
        /\ HasMiss(s)
        /\ gameSessions[s].is_completed
        /\ Cardinality(RoundsOfSession(s)) = 2
        /\ calls[c].op = "end"
        /\ calls[c].data.session_id = s
        /\ calls[c].error = ""

(***************************************************************************)
(* C4.  rounds_completed of a session is the number of its rounds, and     *)
(* their round_numbers are exactly 1..rounds_completed, each once.         *)
(***************************************************************************)
C4_RoundsCompletedCountsRounds ==
    \A s \in Sessions :
        /\ gameSessions[s].rounds_completed = Cardinality(RoundsOfSession(s))
        /\ {gameRounds[i].round_number : i \in RoundsOfSession(s)}
               = 1..gameSessions[s].rounds_completed
        /\ \A i, j \in RoundsOfSession(s) :
               gameRounds[i].round_number = gameRounds[j].round_number => i = j

C4_Witness ==
    \E s, t \in Sessions :
        /\ s # t
        /\ gameSessions[s].rounds_completed = 2
        /\ gameSessions[t].rounds_completed = 1
        /\ \E i \in RoundsOfSession(t) : \E j \in RoundsOfSession(s) : i < j

(***************************************************************************)
(* C5.  Two submitPlayerChoice calls running concurrently on one session   *)
(* do not interleave their round_number assignment or their session        *)
(* update: once both have returned, rounds_completed of every session is   *)
(* the number of its rounds and its round_numbers are distinct.            *)
(***************************************************************************)
C5_ConcurrentSubmitsSerialized ==
    Quiescent =>
        \A s \in Sessions :
            /\ gameSessions[s].rounds_completed = Cardinality(RoundsOfSession(s))
            /\ \A i, j \in RoundsOfSession(s) :
                   gameRounds[i].round_number = gameRounds[j].round_number => i = j

(***************************************************************************)
(* C6.  The outcome of a round is recorded on its pair atomically: once    *)
(* all calls have returned, no update is lost, total_attempts of a pair is *)
(* the number of rounds stored against it and correct_guesses the number   *)
(* of correct ones.                                                        *)
(***************************************************************************)
C6_PairStatsAtomic ==
    Quiescent =>
        \A p \in Pairs :
            /\ imagePairs[p].total_attempts = Cardinality(RoundsOfPair(p))
            /\ imagePairs[p].correct_guesses =
                   Cardinality({i \in RoundsOfPair(p) : gameRounds[i].is_correct})

(***************************************************************************)
(* C7.  For every pair correct_guesses <= total_attempts, and success_rate *)
(* is 100 * correct_guesses / total_attempts rounded to two decimals       *)
(* (held in hundredths), or 0 when the pair has no attempt.                *)
(***************************************************************************)
C7_SuccessRateConsistent ==
    \A p \in Pairs :
        LET pair == imagePairs[p]
        IN  /\ pair.correct_guesses <= pair.total_attempts
            /\ IF pair.total_attempts = 0
               THEN pair.success_rate = 0
               \* the hundredths nearest to 10000 * correct / total, half up
               ELSE /\ 2 * pair.total_attempts * pair.success_rate
                          <= 20000 * pair.correct_guesses + pair.total_attempts
                    /\ 2 * pair.total_attempts * pair.success_rate
                          > 20000 * pair.correct_guesses - pair.total_attempts

C7_Witness ==
    \E p, q \in Pairs :
        /\ imagePairs[p].total_attempts = 3
        /\ imagePairs[p].correct_guesses = 2
        /\ imagePairs[p].success_rate = 6667
        /\ imagePairs[q].total_attempts = 0

(***************************************************************************)
(* C8.  total_attempts of a pair is the number of rounds, of all sessions, *)
(* stored against it, and correct_guesses the number of correct ones.      *)
(***************************************************************************)
C8_AttemptsCountRounds ==
    \A p \in Pairs :
        /\ imagePairs[p].total_attempts = Cardinality(RoundsOfPair(p))
        /\ imagePairs[p].correct_guesses =
               Cardinality({i \in RoundsOfPair(p) : gameRounds[i].is_correct})

C8_Witness ==
    \E p, q \in Pairs : \E s, t \in Sessions :
        /\ p # q /\ s # t
        /\ imagePairs[p].total_attempts = 2
        /\ imagePairs[p].correct_guesses = 1
        /\ imagePairs[q].total_attempts = 1
        /\ RoundsOfPair(p) \cap RoundsOfSession(s) # {}
        /\ RoundsOfPair(p) \cap RoundsOfSession(t) # {}
        /\ gameSessions[t].is_completed

(***************************************************************************)
(* C9.  startGameSession for a daily game of player p throws               *)
(* DuplicateDailyAttempt and stores no session when p has a completed      *)
(* daily session dated today.                                              *)
(***************************************************************************)
CompletedDailyToday(p) ==
    \E s \in Sessions :
        /\ gameSessions[s].player_id = p
        /\ gameSessions[s].game_mode = "daily"
        /\ gameSessions[s].daily_challenge_date = getTodayString(now)
        /\ gameSessions[s].is_completed

C9_DuplicateDailyRejected ==
    [][\A c \in Clients :
        /\ Called(c, "start")
        /\ calls'[c].data.game_mode = "daily"
        /\ calls'[c].data.player_id # NoPlayer
        /\ CompletedDailyToday(calls'[c].data.player_id)
        => /\ calls'[c].error = "DuplicateDailyAttempt"
           /\ gameSessions' = gameSessions]_vars

(***************************************************************************)
(* C10.  At most one daily session of a player and a day is completed.     *)
(***************************************************************************)
C10_OneCompletedDailyPerDay ==
    \A s, t \in Sessions :
        /\ gameSessions[s].game_mode = "daily" /\ gameSessions[t].game_mode = "daily"
        /\ gameSessions[s].is_completed /\ gameSessions[t].is_completed
        /\ gameSessions[s].player_id = gameSessions[t].player_id
        /\ gameSessions[s].daily_challenge_date = gameSessions[t].daily_challenge_date
        => s = t

(***************************************************************************)
(* C11.  calculateScore returns 0 for an incorrect answer, and for a       *)
(* correct one floor((100 + difficulty * 20 + timeBonus) * (1 + streak *   *)
(* 0.1)) with timeBonus = max(0, 50 - 2 * min(responseTime / 1000, 30)),   *)
(* the formula taken over the rationals (here in 1/10000 points).          *)
(***************************************************************************)
C11_ScoreFormula ==
    \A c \in Clients :
        (calls[c].op = "calculateScore" /\ calls[c].pc = "done") =>
            calls[c].result =
                IF ~calls[c].data.isCorrect THEN 0
                ELSE ((100000 + calls[c].data.difficulty * 20000
                         + Max(0, 50000 - 2 * (IF calls[c].data.responseTime < 30000
                                               THEN calls[c].data.responseTime ELSE 30000)))
                      * (10 + calls[c].data.currentStreak)) \div 10000

(***************************************************************************)
(* C12.  The points_earned of the round a submitPlayerChoice stores are    *)
(* what calculateScore returns for the round's is_correct and              *)
(* response_time, the pair's difficulty_level and the current_streak the   *)
(* session had before the call.                                            *)
(***************************************************************************)
C12_PointsAreScore ==
    [][\A c \in Clients :
        (Called(c, "submit") /\ calls'[c].error = "") =>
            gameRounds'[Len(gameRounds')].points_earned
                = calculateScore(gameRounds'[Len(gameRounds')].is_correct,
                                 gameRounds'[Len(gameRounds')].response_time,
                                 imagePairs[calls'[c].data.pair_id].difficulty_level,
                                 gameSessions[calls'[c].data.session_id].current_streak)]_vars

(***************************************************************************)
(* C13.  getNextPairForGame and submitPlayerChoice throw SessionNotFound   *)
(* for a session_id the store does not hold and SessionAlreadyCompleted    *)
(* for a completed session; submitPlayerChoice on a session in progress    *)
(* throws PairNotFound for a pair_id the store does not hold.  A call that *)
(* throws one of these stores no round and leaves every session, pair and  *)
(* image as it was.                                                        *)
(***************************************************************************)
C13_LookupFailuresWriteNothing ==
    [][\A c \in Clients :
        (Called(c, "nextPair") \/ Called(c, "submit")) =>
            /\ calls'[c].data.session_id \notin Sessions
                   => calls'[c].error = "SessionNotFound"
            /\ (/\ calls'[c].data.session_id \in Sessions
                /\ gameSessions[calls'[c].data.session_id].is_completed)
                   => calls'[c].error = "SessionAlreadyCompleted"
            /\ (/\ calls'[c].op = "submit"
                /\ calls'[c].data.session_id \in Sessions
                /\ ~gameSessions[calls'[c].data.session_id].is_completed
                /\ calls'[c].data.pair_id \notin Pairs)
                   => calls'[c].error = "PairNotFound"
            /\ calls'[c].error \in {"SessionNotFound", "SessionAlreadyCompleted", "PairNotFound"}
                   => /\ gameRounds' = gameRounds
                      /\ gameSessions' = gameSessions
                      /\ imagePairs' = imagePairs
                      /\ images' = images]_vars

\* a submission for a pair that does not exist has failed on a session in
\* progress that keeps its one round
C13_Witness ==
    \E c \in Clients :
        /\ calls[c].op = "submit"
        /\ calls[c].error = "PairNotFound"
        /\ calls[c].data.session_id \in Sessions
        /\ ~gameSessions[calls[c].data.session_id].is_completed
        /\ gameSessions[calls[c].data.session_id].rounds_completed = 1
        /\ Cardinality(RoundsOfSession(calls[c].data.session_id)) = 1

(***************************************************************************)
(* C14.  endGameSession on a session that is already completed throws     *)
(* SessionAlreadyCompleted and changes nothing: not the session record,    *)
(* not a round, not the statistics of a pair or an image.                  *)
(***************************************************************************)
C14_SecondEndRejected ==
    [][\A c \in Clients :
        (/\ Called(c, "end")
         /\ calls'[c].data.session_id \in Sessions
         /\ gameSessions[calls'[c].data.session_id].is_completed)
            => /\ calls'[c].error = "SessionAlreadyCompleted"
               /\ gameSessions' = gameSessions
               /\ gameRounds' = gameRounds
               /\ imagePairs' = imagePairs
               /\ images' = images]_vars

(***************************************************************************)
(* C15.  The end_time of a session is set at most once: once a session has *)
(* an end_time, no step changes it.                                        *)
(***************************************************************************)
C15_EndTimeSetOnce ==
    [][\A s \in Sessions :
        gameSessions[s].end_time # NoTime
            => gameSessions'[s].end_time = gameSessions[s].end_time]_vars

(***************************************************************************)
(* C16.  selectPairForGame never returns a pair of excludePairIds, for any *)
(* difficulty and any exclusion set; and the pair getNextPairForGame       *)
(* returns was not yet played in the session whenever an active pair not   *)
(* yet played in the session exists, of whatever difficulty.               *)
(***************************************************************************)
C16_NoRepeatWhileUnplayedExists ==
    /\ [](\A difficulty \in 0..5 : \A excludePairIds \in SUBSET Pairs :
            \A random \in RandomFifths :
                selectPairForGame(DB, difficulty, excludePairIds, random)
                    \notin excludePairIds)
    /\ [][\A c \in Clients :
            (/\ Called(c, "nextPair")
             /\ calls'[c].error = ""
             /\ \E p \in Pairs :
                    /\ imagePairs[p].is_active
                    /\ \A i \in RoundsOfSession(calls'[c].data.session_id) :
                           gameRounds[i].pair_id # p)
                => \A i \in RoundsOfSession(calls'[c].data.session_id) :
                       gameRounds[i].pair_id # calls'[c].result.pair]_vars

\* a pair was handed out for the second round of a session whose first
\* round used up the only pair of its difficulty: the pair handed out is of
\* another difficulty and was not played
C16_Witness ==
    \E c \in Clients :
        /\ calls[c].op = "nextPair"
        /\ calls[c].error = ""
        /\ calls[c].result.round_number = 2
        /\ \A i \in RoundsOfSession(calls[c].data.session_id) :
               /\ gameRounds[i].pair_id # calls[c].result.pair
               /\ imagePairs[gameRounds[i].pair_id].difficulty_level
                      # imagePairs[calls[c].result.pair].difficulty_level
               /\ imagePairs[gameRounds[i].pair_id].is_active

\* the pairs played in session s, and the target difficulty of its next round
PlayedPairs(s) == {gameRounds[i].pair_id : i \in RoundsOfSession(s)}
TargetOf(s) == targetDifficulty(DB, gameSessions[s], Cardinality(RoundsOfSession(s)) + 1)

(***************************************************************************)
(* C17.  The pair getNextPairForGame returns is taken from the first of    *)
(* these sets that is not empty: the active pairs of the target difficulty *)
(* not yet played in the session; the active pairs not yet played; the     *)
(* active pairs of the target difficulty; the active pairs.                *)
(***************************************************************************)
C17_FallbackOrder ==
    [][\A c \in Clients :
        (Called(c, "nextPair") /\ calls'[c].error = "") =>
            LET s == calls'[c].data.session_id
                active == {p \in Pairs : imagePairs[p].is_active}
                onTarget == {p \in active : imagePairs[p].difficulty_level = TargetOf(s)}
            IN  calls'[c].result.pair \in
                    IF onTarget \ PlayedPairs(s) # {} THEN onTarget \ PlayedPairs(s)
                    ELSE IF active \ PlayedPairs(s) # {} THEN active \ PlayedPairs(s)
                    ELSE IF onTarget # {} THEN onTarget
                    ELSE active]_vars

\* the last fallback has acted: the pair handed out was already played and
\* is not of the target difficulty
C17_Witness ==
    \E c \in Clients :
        /\ calls[c].op = "nextPair"
        /\ calls[c].error = ""
        /\ calls[c].result.pair \in PlayedPairs(calls[c].data.session_id)
        /\ imagePairs[calls[c].result.pair].difficulty_level
               # TargetOf(calls[c].data.session_id)

(***************************************************************************)
(* C18.  Over the catalogues and the store as it is, every target          *)
(* difficulty, every set of played pairs and every draw of Math.random():  *)
(* getNextPairForGame on a session in progress throws NoPairsAvailable     *)
(* exactly when the fallbacks found no pair, its "none" variant when no    *)
(* pair is active and its "unsuitable" variant when one is; and each of    *)
(* the two variants is the outcome for some of these inputs.               *)
(***************************************************************************)
C18_BothVariantsReachable ==
    LET Inputs == {[db |-> db, difficulty |-> d, used |-> u, random |-> r] :
                       db \in {catalogueDb(cat) : cat \in SelectCatalogues}
                                  \cup {DB},
                       d \in 0..5, u \in SUBSET (1..3), r \in RandomFifths}
        pairOf(in) == getNextPairForGame_select(in.db, in.difficulty, in.used, in.random)
        errorOf(in) ==
            getNextPairForGame_load(in.db, Frame("nextPair", [session_id |-> 1]),
                                    [current_streak |-> 0, total_score |-> 0], 1,
                                    pairOf(in)).f.error
        activeOf(in) == {p \in DOMAIN in.db.imagePairs : in.db.imagePairs[p].is_active}
    IN  /\ \A in \in Inputs :
               /\ errorOf(in) \in {"NoPairsAvailable:none", "NoPairsAvailable:unsuitable"}
                      <=> pairOf(in) = NoPair
               /\ errorOf(in) = "NoPairsAvailable:none" => activeOf(in) = {}
               /\ errorOf(in) = "NoPairsAvailable:unsuitable" => activeOf(in) # {}
        /\ \E in \in Inputs : errorOf(in) = "NoPairsAvailable:none"
        /\ \E in \in Inputs : errorOf(in) = "NoPairsAvailable:unsuitable"

(***************************************************************************)
(* C20.  In a daily session in progress the target difficulty of the next  *)
(* round comes from the set D of the difficulty levels of the active       *)
(* pairs: none (0) when D is empty; the only level when D has one; with    *)
(* two levels the lower for rounds 1 and 2 and the higher for round 3;     *)
(* with three or more the lowest for round 1, the middle one (the level    *)
(* with |D| \div 2 levels below it) for round 2 and the highest for        *)
(* round 3.                                                                *)
(***************************************************************************)
C20_DailyDifficultySpread ==
    \A s \in Sessions :
        (gameSessions[s].game_mode = "daily" /\ ~gameSessions[s].is_completed) =>
            LET D == {imagePairs[p].difficulty_level : p \in {q \in Pairs : imagePairs[q].is_active}}
                roundNumber == Cardinality(RoundsOfSession(s)) + 1
                lowest == CHOOSE d \in D : \A e \in D : d <= e
                highest == CHOOSE d \in D : \A e \in D : d >= e
                middle == CHOOSE d \in D :
                              Cardinality({e \in D : e < d}) = Cardinality(D) \div 2
            IN  TargetOf(s) =
                    IF D = {} THEN 0
                    ELSE IF Cardinality(D) = 1 THEN lowest
                    ELSE IF Cardinality(D) = 2
                         THEN (IF roundNumber <= 2 THEN lowest ELSE highest)
                    ELSE IF roundNumber = 1 THEN lowest
                    ELSE IF roundNumber = 2 THEN middle
                    ELSE highest

(***************************************************************************)
(* C19.  In a streak session in progress the target difficulty of the next *)
(* round is 1 while current_streak < 3, 2 while it is < 7, 3 while < 12, 4 *)
(* while < 20 and 5 from 20 on; and no step lowers the target difficulty   *)
(* of a streak session that stays in progress.                             *)
(***************************************************************************)
C19_StreakDifficultySteps ==
    /\ [](\A s \in Sessions :
            (gameSessions[s].game_mode = "streak" /\ ~gameSessions[s].is_completed) =>
                TargetOf(s) = IF gameSessions[s].current_streak < 3 THEN 1
                              ELSE IF gameSessions[s].current_streak < 7 THEN 2
                              ELSE IF gameSessions[s].current_streak < 12 THEN 3
                              ELSE IF gameSessions[s].current_streak < 20 THEN 4
                              ELSE 5)
    /\ [][\A s \in Sessions :
            (/\ gameSessions[s].game_mode = "streak"
             /\ ~gameSessions[s].is_completed
             /\ ~gameSessions'[s].is_completed)
                => targetDifficulty(DB, gameSessions'[s], 1) >= TargetOf(s)]_vars

\* after twenty correct answers in a row the pair of difficulty 5 was
\* handed out
C19_Witness ==
    \E c \in Clients :
        /\ calls[c].op = "nextPair"
        /\ calls[c].error = ""
        /\ gameSessions[calls[c].data.session_id].game_mode = "streak"
        /\ gameSessions[calls[c].data.session_id].current_streak = 20
        /\ calls[c].result.round_number = 21
        /\ imagePairs[calls[c].result.pair].difficulty_level = 5

(***************************************************************************)
(* C21.  createImagePair stores a pair only when ai_image_id is the id of  *)
(* a stored image marked as AI-generated and real_image_id the id of a     *)
(* stored image marked as real: with two AI images, two real images, the   *)
(* two roles swapped or an image that does not exist the call fails and    *)
(* the pairs stay as they were.  The pair it stores has the larger of the  *)
(* difficulties its two images have at that moment, and no operation       *)
(* changes the difficulty of a stored pair.                                *)
(***************************************************************************)
C21_PairNeedsOneAiOneReal ==
    [][/\ \A c \in Clients :
            Called(c, "createPair") =>
                LET ai == getImage(DB, calls'[c].data.ai_image_id)
                    real == getImage(DB, calls'[c].data.real_image_id)
                IN  IF /\ ai # Null /\ real # Null
                       /\ ai.is_ai_generated /\ ~real.is_ai_generated
                    THEN calls'[c].error = "" =>
                            /\ Len(imagePairs') = Len(imagePairs) + 1
                            /\ imagePairs'[Len(imagePairs')].ai_image_id
                                   = calls'[c].data.ai_image_id
                            /\ imagePairs'[Len(imagePairs')].real_image_id
                                   = calls'[c].data.real_image_id
                            /\ imagePairs'[Len(imagePairs')].difficulty_level
                                   = Max(ai.difficulty_level, real.difficulty_level)
                    ELSE /\ calls'[c].error # ""
                         /\ imagePairs' = imagePairs
       /\ Len(imagePairs') > Len(imagePairs) =>
              \E c \in Clients : Called(c, "createPair") /\ calls'[c].error = ""
       /\ \A p \in Pairs :
              /\ p \in DOMAIN imagePairs'
              /\ imagePairs'[p].difficulty_level = imagePairs[p].difficulty_level]_vars

\* a creation with the roles swapped has just failed, while a pair made
\* earlier, played since, keeps the difficulty it was made with although one
\* of its images has become harder
C21_Witness ==
    /\ \E c \in Clients :
           /\ calls[c].op = "createPair"
           /\ calls[c].error = "InvalidPairComposition"
           /\ getImage(DB, calls[c].data.ai_image_id) # Null
           /\ getImage(DB, calls[c].data.real_image_id) # Null
           /\ ~getImage(DB, calls[c].data.ai_image_id).is_ai_generated
           /\ getImage(DB, calls[c].data.real_image_id).is_ai_generated
    /\ \E p \in Pairs :
           /\ imagePairs[p].total_attempts > 0
           /\ imagePairs[p].difficulty_level
                  < Max(images[imagePairs[p].ai_image_id].difficulty_level,
                        images[imagePairs[p].real_image_id].difficulty_level)

\* the completed sessions a leaderboard of the mode asked for counts, and
\* the players they belong to
CountedSessions(gameMode) ==
    {s \in Sessions : /\ gameSessions[s].is_completed
                      /\ gameMode # "undefined" => gameSessions[s].game_mode = gameMode}

PlayerOf(s) ==
    IF gameSessions[s].player_id = NoPlayer THEN "anonymous" ELSE gameSessions[s].player_id

SessionsOfPlayer(gameMode, player) == {s \in CountedSessions(gameMode) : PlayerOf(s) = player}

(***************************************************************************)
(* C22.  The leaderboard has exactly one entry for each player that has a  *)
(* completed session of the mode asked for, the sessions without player_id *)
(* being those of one player "anonymous", as long as the limit allows:     *)
(* min(limit, number of players) entries.  The best_score of an entry is   *)
(* the largest total_score of the player's sessions, total_games their     *)
(* number; the entries are in non-increasing order of best_score and their *)
(* ranks are 1..n in the order of the list.                                *)
(***************************************************************************)
C22_LeaderboardEntries ==
    [][\A c \in Clients :
        Called(c, "leaderboard") =>
            LET board == calls'[c].result.leaderboard
                mode == calls'[c].data.game_mode
                players == {PlayerOf(s) : s \in CountedSessions(mode)}
            IN  /\ Len(board) = IF calls'[c].data.limit < Cardinality(players)
                                THEN calls'[c].data.limit ELSE Cardinality(players)
                /\ \A k \in DOMAIN board :
                       /\ board[k].rank = k
                       /\ board[k].player_id \in players
                       /\ board[k].total_games
                              = Cardinality(SessionsOfPlayer(mode, board[k].player_id))
                       /\ \E s \in SessionsOfPlayer(mode, board[k].player_id) :
                              board[k].best_score = gameSessions[s].total_score
                       /\ \A s \in SessionsOfPlayer(mode, board[k].player_id) :
                              board[k].best_score >= gameSessions[s].total_score
                       /\ \A j \in DOMAIN board :
                              /\ j < k => board[j].best_score >= board[k].best_score
                              /\ j # k => board[j].player_id # board[k].player_id]_vars

C24_TieAtTheTop ==
    [][\A c \in Clients :
        (/\ Called(c, "leaderboard")
         /\ gameSessions = ImportedSessions
         /\ calls'[c].data.limit = 3
         /\ calls'[c].data.game_mode # "daily")
            => LET board == calls'[c].result.leaderboard
               IN  /\ Len(board) = 3
                   /\ \A k \in DOMAIN board : board[k].rank = k
                   /\ \E k \in DOMAIN board : board[k].player_id = "B"
                   /\ \E k \in DOMAIN board : board[k].player_id = "C"
                   /\ \A k \in DOMAIN board : board[k].player_id # "A"]_vars

(***************************************************************************)
(* C25.  When endGameSession runs on a session while a submitPlayerChoice  *)
(* on that session is in flight (the session was still in progress when    *)
(* the submission looked at it), the submission does nothing to the        *)
(* session once it is completed: no step of the submission adds a round to *)
(* it or changes its rounds_completed, total_score or is_completed.        *)
(***************************************************************************)
C25_LateSubmitLeavesEndedSession ==
    [][\A c, e \in Clients :
        (/\ calls[e].op = "end" /\ calls[e].error = ""
         /\ calls[c].op = "submit" /\ calls[c].pc # "done"
         /\ calls[c].data.session_id = calls[e].data.session_id
         /\ calls[c].data.session_id \in Sessions
         /\ gameSessions[calls[c].data.session_id].is_completed
         /\ calls'[c] # calls[c])
            => /\ \A i \in DOMAIN gameRounds' :
                      gameRounds'[i].session_id = calls[c].data.session_id
                          => i \in DOMAIN gameRounds
               /\ gameSessions'[calls[c].data.session_id].rounds_completed
                      = gameSessions[calls[c].data.session_id].rounds_completed
               /\ gameSessions'[calls[c].data.session_id].total_score
                      = gameSessions[calls[c].data.session_id].total_score
               /\ gameSessions'[calls[c].data.session_id].is_completed]_vars

(***************************************************************************)
(* C26.  In a streak session every correct submission raises              *)
(* current_streak by exactly 1 and leaves the session in progress, however *)
(* long the streak already is: there is no cap on the rounds, and a streak *)
(* session in which every choice was correct is never completed by a       *)
(* submission.                                                             *)
(***************************************************************************)
C26_StreakHasNoRoundCap ==
    [][\A c \in Clients :
        (/\ Called(c, "submit")
         /\ calls'[c].error = ""
         /\ calls'[c].data.player_choice = "ai"
         /\ gameSessions[calls'[c].data.session_id].game_mode = "streak")
            => /\ gameSessions'[calls'[c].data.session_id].current_streak
                      = gameSessions[calls'[c].data.session_id].current_streak + 1
               /\ ~gameSessions'[calls'[c].data.session_id].is_completed
               /\ calls'[c].result.gameResult = Null]_vars

\* a streak session of twenty correct rounds is still in progress
C26_Witness ==
    \E s \in Sessions :
        /\ gameSessions[s].game_mode = "streak"
        /\ gameSessions[s].current_streak = 20
        /\ Cardinality(RoundsOfSession(s)) = 20
        /\ ~HasMiss(s)
        /\ ~gameSessions[s].is_completed

(***************************************************************************)
(* C27.  In a streak session the streak is reset to 0 by a miss: after a   *)
(* submission with an incorrect choice the stored current_streak of the    *)
(* session, and the current_streak of the GameResult returned, is 0.       *)
(***************************************************************************)
C27_StreakResetOnMiss ==
    [][\A c \in Clients :
        (/\ Called(c, "submit")
         /\ calls'[c].error = ""
         /\ calls'[c].data.player_choice = "real"
         /\ gameSessions[calls'[c].data.session_id].game_mode = "streak")
            => /\ gameSessions'[calls'[c].data.session_id].current_streak = 0
               /\ calls'[c].result.gameResult.current_streak = 0]_vars

(***************************************************************************)
(* C27, as the program has it.  In a streak session a miss ends the game   *)
(* and leaves the streak as it was: after a submission with an incorrect   *)
(* choice the session is completed, and its stored current_streak and the  *)
(* current_streak of the GameResult returned are the streak reached before *)
(* the miss, the number of correct rounds of the session.                  *)
(***************************************************************************)
C27_StreakKeptOnMiss ==
    [][\A c \in Clients :
        (/\ Called(c, "submit")
         /\ calls'[c].error = ""
         /\ calls'[c].data.player_choice = "real"
         /\ gameSessions[calls'[c].data.session_id].game_mode = "streak")
            => /\ gameSessions'[calls'[c].data.session_id].is_completed
               /\ gameSessions'[calls'[c].data.session_id].current_streak
                      = gameSessions[calls'[c].data.session_id].current_streak
               /\ calls'[c].result.gameResult.current_streak
                      = gameSessions[calls'[c].data.session_id].current_streak
               /\ gameSessions'[calls'[c].data.session_id].current_streak
                      = Cardinality({i \in DOMAIN gameRounds' :
                            /\ gameRounds'[i].session_id = calls'[c].data.session_id
                            /\ gameRounds'[i].is_correct})]_vars

\* a streak session ended by a miss after four correct rounds holds a
\* streak of four, and so does the GameResult its last submission returned
C27_Witness ==
    \E c \in Clients : \E s \in Sessions :
        /\ calls[c].op = "submit" /\ calls[c].error = ""
        /\ calls[c].data.session_id = s
        /\ calls[c].data.player_choice = "real"
        /\ gameSessions[s].game_mode = "streak"
        /\ gameSessions[s].is_completed
        /\ Cardinality(RoundsOfSession(s)) = 5
        /\ gameSessions[s].current_streak = 4
        /\ calls[c].result.gameResult.current_streak = 4

(***************************************************************************)
(* C28.  A daily session never advances its streak: its current_streak is  *)
(* 0 in every state, whatever was submitted, and the points of its rounds  *)
(* carry no streak multiplier: a correct round earns the base points, the  *)
(* difficulty bonus of 20 per level and the time bonus of 2 per second     *)
(* left of 30, rounded to the nearest integer, and a miss earns nothing.   *)
(***************************************************************************)
C28_DailyStreakStaysZero ==
    \A s \in Sessions :
        gameSessions[s].game_mode = "daily" =>
            /\ gameSessions[s].current_streak = 0
            /\ \A i \in RoundsOfSession(s) :
                   gameRounds[i].points_earned =
                       IF ~gameRounds[i].is_correct THEN 0
                       ELSE IF gameRounds[i].response_time >= 30000
                       THEN 100 + 20 * imagePairs[gameRounds[i].pair_id].difficulty_level
                       ELSE RoundDiv(
                                1000 * (100 + 20 * imagePairs[gameRounds[i].pair_id].difficulty_level)
                                    + 2 * (30000 - gameRounds[i].response_time),
                                1000)

\* a daily session is over after three correct rounds of 177 points each,
\* its streak still 0
C28_Witness ==
    \E s \in Sessions :
        /\ gameSessions[s].game_mode = "daily"
        /\ gameSessions[s].is_completed
        /\ gameSessions[s].current_streak = 0
        /\ gameSessions[s].total_score = 3 * 177
        /\ Cardinality(RoundsOfSession(s)) = 3
        /\ \A i \in RoundsOfSession(s) :
               gameRounds[i].is_correct /\ gameRounds[i].points_earned = 177

(***************************************************************************)
(* C29.  The GameResult returned by the submission that completes a        *)
(* session describes the session with the round just submitted: its        *)
(* total_score is the sum of the points_earned of all rounds of the        *)
(* session, its rounds_completed and final_stats.total_rounds are the      *)
(* number of these rounds, correct_answers the number of correct ones, and *)
(* accuracy_percentage is 100 * correct_answers / total_rounds rounded to  *)
(* two decimals (held in hundredths).                                      *)
(***************************************************************************)
C29_ResultIncludesLastRound ==
    [][\A c \in Clients :
        (/\ Called(c, "submit")
         /\ calls'[c].error = ""
         /\ calls'[c].result.gameResult # Null)
            => LET result == calls'[c].result.gameResult
                   rounds == {i \in DOMAIN gameRounds' :
                                 gameRounds'[i].session_id = calls'[c].data.session_id}
                   correct == {i \in rounds : gameRounds'[i].is_correct}
                   points == [i \in 1..Len(gameRounds') |->
                                 IF i \in rounds THEN gameRounds'[i].points_earned ELSE 0]
               IN  /\ Cardinality(rounds)
                          = 1 + Cardinality(RoundsOfSession(calls'[c].data.session_id))
                   /\ result.total_score = SumSeq(points)
                   /\ result.rounds_completed = Cardinality(rounds)
                   /\ result.final_stats.total_rounds = Cardinality(rounds)
                   /\ result.final_stats.correct_answers = Cardinality(correct)
                   /\ 2 * Cardinality(rounds) * result.final_stats.accuracy_percentage
                          <= 20000 * Cardinality(correct) + Cardinality(rounds)
                   /\ 2 * Cardinality(rounds) * result.final_stats.accuracy_percentage
                          > 20000 * Cardinality(correct) - Cardinality(rounds)]_vars

\* the third round of a daily session, two of them correct, has returned a
\* GameResult of three rounds, 354 points and 66.67 percent
C29_Witness ==
    \E c \in Clients :
        /\ calls[c].op = "submit" /\ calls[c].error = ""
        /\ calls[c].result.gameResult # Null
        /\ calls[c].result.gameResult.rounds_completed = 3
        /\ calls[c].result.gameResult.total_score = 354
        /\ calls[c].result.gameResult.final_stats.correct_answers = 2
        /\ calls[c].result.gameResult.final_stats.accuracy_percentage = 6667
        /\ Cardinality(RoundsOfSession(calls[c].data.session_id)) = 3

(***************************************************************************)
(* C30.  A submission that stores a round sets average_response_time of    *)
(* its pair to (old average * old attempts + response_time) / new          *)
(* attempts, so the average stored with a pair is the mean response_time   *)
(* of the rounds stored against it: average * attempts is their sum.       *)
(***************************************************************************)
C30_AverageIsMeanOfRounds ==
    [][\A c \in Clients :
        (/\ Called(c, "submit")
         /\ calls'[c].error = "")
            => LET p == calls'[c].data.pair_id
                   times == [i \in 1..Len(gameRounds') |->
                                IF gameRounds'[i].pair_id = p
                                THEN gameRounds'[i].response_time ELSE 0]
               IN  /\ imagePairs'[p].average_response_time * imagePairs'[p].total_attempts
                          = imagePairs[p].average_response_time * imagePairs[p].total_attempts
                                + calls'[c].data.response_time
                   /\ imagePairs'[p].average_response_time * imagePairs'[p].total_attempts
                          = SumSeq(times)]_vars

\* this step is a submission by some client that stored its round
Submitted(c) == Called(c, "submit") /\ calls'[c].error = ""

(***************************************************************************)
(* C31.  Every submission that stores a round raises usage_count of the    *)
(* two images of its pair by exactly 1, and nothing else changes a         *)
(* usage_count (start, next pair, end and switching a pair off or on leave *)
(* it alone, and it never decreases): once all calls have returned, the    *)
(* usage_count of an image is the number of rounds stored against the      *)
(* pairs it belongs to.                                                    *)
(***************************************************************************)
C31_UsageCountedPerRound ==
    Quiescent =>
        \A i \in DOMAIN images :
            images[i].usage_count =
                Cardinality({r \in DOMAIN gameRounds :
                    i \in {imagePairs[gameRounds[r].pair_id].ai_image_id,
                           imagePairs[gameRounds[r].pair_id].real_image_id}})

\* the candidates of a selection, and the weight of a candidate among them,
\* in 1/10000: 1, plus a half when it was played less than the mean of the
\* candidates, plus (50 - |success_rate - 50|) / 100
Candidates(difficulty, excludePairIds) ==
    {p \in Pairs : /\ imagePairs[p].is_active
                   /\ difficulty # 0 => imagePairs[p].difficulty_level = difficulty
                   /\ p \notin excludePairIds}

WeightAmong(p, cands) ==
    LET attempts == [i \in 1..Len(imagePairs) |->
                        IF i \in cands THEN imagePairs[i].total_attempts ELSE 0]
    IN  10000
        + (IF imagePairs[p].total_attempts * Cardinality(cands) < SumSeq(attempts)
           THEN 5000 ELSE 0)
        + 5000 - Max(imagePairs[p].success_rate - 5000, 5000 - imagePairs[p].success_rate)

(***************************************************************************)
(* C32.  selectPairForGame returns one of the top min(5, n) of its n       *)
(* candidates by weight: the pair returned is a candidate and at most 4    *)
(* candidates weigh strictly more than it; it returns no pair only when    *)
(* there is no candidate; and with 5 candidates or fewer every candidate   *)
(* is returned for some value of Math.random().                            *)
(***************************************************************************)
C32_PickAmongTopFive ==
    \A c \in Clients :
        (calls[c].op = "selectPair" /\ calls[c].pc = "done") =>
            LET cands == Candidates(calls[c].data.difficulty, calls[c].data.excludePairIds)
                pair == calls[c].result.pair
            IN  /\ pair = NoPair <=> cands = {}
                /\ pair # NoPair =>
                       /\ pair \in cands
                       /\ Cardinality({q \in cands :
                              WeightAmong(q, cands) > WeightAmong(pair, cands)}) <= 4
                /\ Cardinality(cands) <= 5 =>
                       \A q \in cands : \E random \in 0..4 :
                           selectPairForGame(DB, calls[c].data.difficulty,
                               calls[c].data.excludePairIds, random) = q

\* out of six candidates of three different weights, two of them heavier
\* than the others, a pair of the second weight was returned
C32_Witness ==
    \E c \in Clients :
        /\ calls[c].op = "selectPair" /\ calls[c].pc = "done"
        /\ calls[c].result.pair # NoPair
        /\ LET cands == Candidates(calls[c].data.difficulty, calls[c].data.excludePairIds)
               heavier == {q \in cands : WeightAmong(q, cands)
                                             > WeightAmong(calls[c].result.pair, cands)}
               lighter == {q \in cands : WeightAmong(q, cands)
                                             < WeightAmong(calls[c].result.pair, cands)}
           IN  /\ Cardinality(cands) = 6
               /\ Cardinality(heavier) = 2
               /\ lighter # {}

(***************************************************************************)
(* C33.  A start that succeeds creates exactly one session, of the mode    *)
(* and player given, with total_score 0, rounds_completed 0,               *)
(* current_streak 0, is_completed false and no end_time, and changes no    *)
(* other session, round, pair or image; the session carries a              *)
(* daily_challenge_date, the day of the engine's clock, if and only if its *)
(* mode is daily.                                                          *)
(***************************************************************************)
C33_StartCreatesOneFreshSession ==
    [][\A c \in Clients :
        (Called(c, "start") /\ calls'[c].error = "") =>
            /\ Len(gameSessions') = Len(gameSessions) + 1
            /\ \A s \in Sessions : gameSessions'[s] = gameSessions[s]
            /\ gameSessions'[Len(gameSessions')] =
                   [player_id |-> calls'[c].data.player_id,
                    game_mode |-> calls'[c].data.game_mode,
                    end_time |-> NoTime,
                    total_score |-> 0,
                    rounds_completed |-> 0,
                    current_streak |-> 0,
                    is_completed |-> FALSE,
                    daily_challenge_date |->
                        IF calls'[c].data.game_mode = "daily" THEN now \div TicksPerDay
                        ELSE NoDate]
            /\ NoDate \notin {now \div TicksPerDay}
            /\ gameRounds' = gameRounds
            /\ imagePairs' = imagePairs
            /\ images' = images]_vars

\* a daily session started on the second day carries that day; the streak
\* session played before it is still there with its round
C33_Witness ==
    \E c \in Clients :
        /\ calls[c].op = "start" /\ calls[c].error = ""
        /\ Len(gameSessions) = 2
        /\ gameSessions[1].game_mode = "streak"
        /\ gameSessions[1].daily_challenge_date = NoDate
        /\ gameSessions[1].rounds_completed = 1
        /\ gameSessions[2].game_mode = "daily"
        /\ gameSessions[2].daily_challenge_date = 1
        /\ now = 1

(***************************************************************************)
(* C34.  Rounds are immutable and belong to one session: no step of any    *)
(* operation changes or removes a stored round (the store of rounds only   *)
(* grows at its end), every stored round names one existing session, its   *)
(* correct_answer is "ai", its is_correct says whether player_choice is    *)
(* "ai", and its points_earned are at least 0, and 0 when it is a miss.    *)
(***************************************************************************)
C34_RoundsAreImmutable ==
    [][/\ Len(gameRounds') >= Len(gameRounds)
       /\ \A i \in DOMAIN gameRounds : gameRounds'[i] = gameRounds[i]
       /\ \A i \in DOMAIN gameRounds' :
            /\ gameRounds'[i].session_id \in DOMAIN gameSessions'
            /\ gameRounds'[i].correct_answer = "ai"
            /\ gameRounds'[i].is_correct = (gameRounds'[i].player_choice = "ai")
            /\ gameRounds'[i].points_earned >= 0
            /\ ~gameRounds'[i].is_correct => gameRounds'[i].points_earned = 0]_vars

\* a session with a hit that earned points followed by a miss that earned
\* none, ended afterwards, and a second session started after it
C34_Witness ==
    /\ Len(gameRounds) = 2 /\ Len(gameSessions) = 2
    /\ \E i, j \in DOMAIN gameRounds :
         /\ i < j
         /\ gameRounds[i].session_id = gameRounds[j].session_id
         /\ gameRounds[i].is_correct /\ gameRounds[i].points_earned > 0
         /\ ~gameRounds[j].is_correct /\ gameRounds[j].player_choice = "real"
         /\ gameSessions[gameRounds[i].session_id].is_completed
    /\ \E c \in Clients : calls[c].op = "end" /\ calls[c].pc = "done"

\* the statistics of a pair
StatsOf(pair) ==
    <<pair.total_attempts, pair.correct_guesses, pair.success_rate,
      pair.average_response_time>>

(***************************************************************************)
(* C35.  With the operations run one at a time, the statistics of a pair   *)
(* (total_attempts, correct_guesses, success_rate, average_response_time)  *)
(* change only in a step that is a successful submitPlayerChoice on that   *)
(* pair: startGameSession, getNextPairForGame, endGameSession and          *)
(* togglePairActive leave them as they are.  togglePairActive changes      *)
(* nothing but the is_active of its pair, which it inverts (so that        *)
(* toggling twice restores it), and no operation adds or removes a pair.   *)
(***************************************************************************)
C35_StatsChangeOnlyBySubmit ==
    [][/\ DOMAIN imagePairs' = DOMAIN imagePairs
       /\ \A p \in Pairs :
            StatsOf(imagePairs'[p]) # StatsOf(imagePairs[p]) =>
                \E c \in Clients :
                    /\ calls'[c].op = "submit" /\ calls'[c].pc = "done"
                    /\ calls'[c].error = ""
                    /\ calls'[c].data.pair_id = p
       /\ \A c \in Clients :
            calls'[c].op = "togglePair" =>
                /\ images' = images
                /\ gameSessions' = gameSessions
                /\ gameRounds' = gameRounds
                /\ \A p \in Pairs :
                     imagePairs'[p] # imagePairs[p] =>
                        /\ calls'[c].data.pair_id = p
                        /\ imagePairs'[p] =
                               [imagePairs[p] EXCEPT !.is_active = ~imagePairs[p].is_active]]_vars

\* the first pair was played twice, then switched off and on again: it is
\* active and keeps its two attempts
C35_Witness ==
    /\ imagePairs[1].total_attempts = 2
    /\ imagePairs[1].correct_guesses = 1
    /\ imagePairs[1].is_active
    /\ \E c \in Clients : calls[c].op = "togglePair" /\ calls[c].result # Null
    /\ \E s \in Sessions : gameSessions[s].is_completed

(***************************************************************************)
(* C36.  When the time of a round runs out in a client, daily or streak,   *)
(* the client sends the engine exactly one request: a submission on the    *)
(* session of its view with player_choice "real", which the engine stores  *)
(* as an incorrect round.                                                  *)
(***************************************************************************)
C36_TimeoutIsOneIncorrectSubmit ==
    \A c \in Clients :
        calls[c].op = "timeUp" =>
            /\ Len(calls[c].result.sent) = 1
            /\ calls[c].result.sent[1].op = "submit"
            /\ calls[c].result.sent[1].error = ""
            /\ calls[c].result.sent[1].data.session_id = calls[c].data.session
            /\ calls[c].result.sent[1].data.player_choice = "real"
            /\ ~calls[c].result.sent[1].result.isCorrect

\* the points earned in the rounds of session s among the rounds given
PointsOfSession(rounds, s) ==
    SumSeq([i \in 1..Len(rounds) |->
               IF rounds[i].session_id = s THEN rounds[i].points_earned ELSE 0])

(***************************************************************************)
(* C37.  With the operations run one at a time, after every step the       *)
(* total_score of each session is the sum of the points_earned of the      *)
(* rounds stored for it, and no step lowers the total_score of a session.  *)
(***************************************************************************)
C37_ScoreIsSumOfPoints ==
    [][\A s \in DOMAIN gameSessions' :
          /\ gameSessions'[s].total_score = PointsOfSession(gameRounds', s)
          /\ s \in Sessions => gameSessions'[s].total_score >= gameSessions[s].total_score]_vars

\* a daily session played to its end with two hits, and a streak session
\* with a hit scored next to it
C37_Witness ==
    \E s, u \in Sessions :
        /\ gameSessions[s].game_mode = "daily" /\ gameSessions[s].is_completed
        /\ Cardinality(RoundsOfSession(s)) = 2
        /\ gameSessions[s].total_score = PointsOfSession(gameRounds, s)
        /\ gameSessions[s].total_score > 300
        /\ gameSessions[u].game_mode = "streak"
        /\ gameSessions[u].total_score > 0
        /\ Cardinality(RoundsOfSession(u)) = 1

ResponseTimesOfSession(s) ==
    [i \in 1..Len(gameRounds) |->
        IF gameRounds[i].session_id = s THEN gameRounds[i].response_time ELSE 0]

\* what a GameResult must say of a session that has the rounds given, `hits`
\* of them correct, with response times adding up to `sum`: the accuracy (in
\* hundredths of a percent) and the average are the rounded quotients, and
\* both are 0 when there is no round
ResultCountsRounds(result, rounds, hits, sum) ==
    /\ result.final_stats.total_rounds = rounds
    /\ result.final_stats.correct_answers = hits
    /\ rounds = 0 => /\ result.final_stats.accuracy_percentage = 0
                     /\ result.final_stats.average_response_time = 0
    /\ 2 * rounds * result.final_stats.accuracy_percentage <= 20000 * hits + rounds
    /\ 2 * rounds * result.final_stats.accuracy_percentage >= 20000 * hits - rounds
    /\ 2 * rounds * result.final_stats.average_response_time <= 2 * sum + rounds
    /\ 2 * rounds * result.final_stats.average_response_time >= 2 * sum - rounds

(***************************************************************************)
(* C39.  A manual endGameSession of a session in progress succeeds, sets   *)
(* its is_completed and its end_time and leaves its total_score,           *)
(* rounds_completed and current_streak, and every other session, as they   *)
(* were; it stores no round and changes no pair and no image.  The         *)
(* GameResult it returns carries the score, rounds and streak of the       *)
(* session and counts exactly the rounds stored for it; with no round the  *)
(* accuracy and the average response time are 0.                           *)
(***************************************************************************)
C39_ManualEndKeepsScore ==
    [][\A c \in Clients : \A s \in Sessions :
        (/\ Called(c, "end")
         /\ calls'[c].data.session_id = s
         /\ ~gameSessions[s].is_completed)
            => /\ calls'[c].error = ""
               /\ gameSessions' = [gameSessions EXCEPT ![s].is_completed = TRUE,
                                                       ![s].end_time = now]
               /\ now # NoTime
               /\ gameRounds' = gameRounds
               /\ imagePairs' = imagePairs
               /\ images' = images
               /\ calls'[c].result.total_score = gameSessions[s].total_score
               /\ calls'[c].result.rounds_completed = gameSessions[s].rounds_completed
               /\ calls'[c].result.current_streak = gameSessions[s].current_streak
               /\ calls'[c].result.is_completed
               /\ ResultCountsRounds(calls'[c].result,
                      Cardinality(RoundsOfSession(s)),
                      Cardinality({i \in RoundsOfSession(s) : gameRounds[i].is_correct}),
                      SumSeq(ResponseTimesOfSession(s)))]_vars

\* a session was ended before any round; then a streak session that has a
\* hit and its points is ended by hand: its result counts one round, all
\* correct
C39_Witness ==
    \E c \in Clients : \E s, u \in Sessions :
        /\ calls[c].op = "end" /\ calls[c].error = "" /\ calls[c].data.session_id = s
        /\ gameSessions[s].is_completed /\ gameSessions[s].game_mode = "streak"
        /\ gameSessions[s].current_streak = 1 /\ gameSessions[s].total_score > 0
        /\ calls[c].result.final_stats.total_rounds = 1
        /\ calls[c].result.final_stats.accuracy_percentage = 10000
        /\ calls[c].result.total_score = gameSessions[s].total_score
        /\ u # s
        /\ gameSessions[u].is_completed /\ gameSessions[u].rounds_completed = 0
        /\ gameSessions[u].end_time # NoTime
        /\ RoundsOfSession(u) = {}

(***************************************************************************)
(* C40.  The administration rate limiter lets at most maxRequests (50)     *)
(* requests of a client address through in one window of windowMs (15      *)
(* minutes).  For every request: when the address has no window or its     *)
(* window's resetTime is past, the request goes through and opens a window *)
(* with count 1 that ends windowMs later; within a window a request goes   *)
(* through and is counted while the count is below 50; once the count is   *)
(* 50 every request is answered 429 and changes nothing.  The count never  *)
(* exceeds 50 and the windows of other addresses are not touched.          *)
(***************************************************************************)
C40_AtMostFiftyPerWindow ==
    [][\A c \in Clients : \A ip \in ClientIPs :
        (/\ calls'[c].op = "adminRequest"
         /\ calls'[c].data.clientIP = ip
         /\ (calls' # calls \/ adminRateLimitStore' # adminRateLimitStore))
            => /\ DOMAIN adminRateLimitStore' = DOMAIN adminRateLimitStore \cup {ip}
               /\ \A k \in DOMAIN adminRateLimitStore \ {ip} :
                      adminRateLimitStore'[k] = adminRateLimitStore[k]
               /\ adminRateLimitStore'[ip].count <= maxRequests
               /\ IF ip \notin DOMAIN adminRateLimitStore
                  THEN /\ calls'[c].result.status = "next"
                       /\ adminRateLimitStore'[ip] =
                              [count |-> 1, resetTime |-> now + windowMs]
                  ELSE IF now > adminRateLimitStore[ip].resetTime
                  THEN /\ calls'[c].result.status = "next"
                       /\ adminRateLimitStore'[ip] =
                              [count |-> 1, resetTime |-> now + windowMs]
                  ELSE IF adminRateLimitStore[ip].count < maxRequests
                  THEN /\ calls'[c].result.status = "next"
                       /\ adminRateLimitStore'[ip] =
                              [count |-> adminRateLimitStore[ip].count + 1,
                               resetTime |-> adminRateLimitStore[ip].resetTime]
                  ELSE /\ calls'[c].result.status = "429"
                       /\ adminRateLimitStore'[ip] = adminRateLimitStore[ip]]_vars

\* the first address has filled its second window, opened one millisecond
\* after the first one ended, and its last request was answered 429 while
\* the second address has one request in a window of its own
C40_Witness ==
    \E c \in Clients :
        /\ calls[c].op = "adminRequest"
        /\ calls[c].data.clientIP = "10.0.0.1"
        /\ calls[c].result.status = "429"
        /\ DOMAIN adminRateLimitStore = ClientIPs
        /\ adminRateLimitStore["10.0.0.1"].count = maxRequests
        /\ adminRateLimitStore["10.0.0.1"].resetTime = 2 * windowMs + 1
        /\ adminRateLimitStore["10.0.0.2"].count = 1
        /\ now <= adminRateLimitStore["10.0.0.1"].resetTime

============================================================================
